---------------------------- MODULE Spec2Model ----------------------------
(***************************************************************************)
(* Model of relation-service/src/models/relations.js (RelationsModel and   *)
(* its process-wide relationsCache).                                       *)
(*                                                                         *)
(* The relations table is a set of rows; the unique index on               *)
(* (source_type, source_value, target_type, target_value) that the         *)
(* ON CONFLICT clauses name is modelled by the statements themselves.      *)
(* Every async method is cut at its awaits: a call is started, each        *)
(* statement it sends is executed by the store in a step of its own (and   *)
(* may fail), and the continuation after the last await is a last step.    *)
(* Time is in milliseconds, as Date.now() gives it.                        *)
(***************************************************************************)
EXTENDS Integers, Sequences, FiniteSets, TLC

VARIABLES
  now,     \* the clock read by Date.now(), new Date() and NOW()
  store,   \* the committed rows of the relations table
  cache,   \* relationsCache: key (a string, as its characters) -> {data, timestamp}
  pc,      \* per caller: where its call is suspended
  call,    \* per caller: the arguments and locals of its call, and its outcome
  tx,      \* per caller: the uncommitted changes of its open transaction
  hist,    \* observer: per composite key, the upserts committed so far
  obs,     \* observer: what the callers of the cached reads have been promised
  disk,    \* the log files, their backups, the archives and their export copies
  mgr,     \* the LogRotationManager: timer, isInitialized, s3Uploads
  timers,  \* the intervals of the runtime: those made and those still live
  task,    \* per task of the manager: where it is suspended, its locals, its outcome
  events   \* what eventLogger.logSystemEvent has been given

vars == <<now, store, cache, pc, call, tx, hist, obs, disk, mgr, timers, task, events>>

relstate == <<store, cache, pc, call, tx, hist>>
relvars == <<store, cache, pc, call, tx, hist, obs>>
lrvars == <<disk, mgr, timers, task, events>>

-----------------------------------------------------------------------------
(* Bounds of the exploration *)

MaxCount == 3      \* calls start only while every counter stays within this
MaxBatch == 2      \* longest batch given to batchUpsertRelations
MaxTicks == 4      \* clock steps of ClockStep explored
MaxDays  == 1      \* whole days the clock may jump
MaxEntries == 3    \* longest list a log file holds
MaxTimers == 2     \* initialize() calls explored, each of which may make an interval
MaxFires == 2      \* runs started by the intervals

(* Program constants *)

RELATIONS_CACHE_TTL == 30000
DAY_MS == 86400000

ClockStep == RELATIONS_CACHE_TTL \div 3
T0 == DAY_MS

Slots == {"A", "B"}

-----------------------------------------------------------------------------
(* Strings.  Cache keys are compared by prefix, so they are kept as their   *)
(* characters.                                                              *)

Chars ==
  [ username |-> <<"u","s","e","r","n","a","m","e">>,
    command  |-> <<"c","o","m","m","a","n","d">>,
    user     |-> <<"u","s","e","r">>,
    user_commands |-> <<"u","s","e","r","_","c","o","m","m","a","n","d","s">> ]

Digit == <<"0","1","2","3","4","5","6","7","8","9">>

RECURSIVE NumStr(_)
NumStr(n) ==
  IF n < 10 THEN <<Digit[n + 1]>>
  ELSE NumStr(n \div 10) \o <<Digit[(n % 10) + 1]>>

StartsWith(s, p) ==
  /\ Len(p) <= Len(s)
  /\ \A i \in 1..Len(p) : s[i] = p[i]

RelationsKey(type, limit) == Chars[type] \o <<"_">> \o NumStr(limit)
UserCommandsKey == Chars["user_commands"]

-----------------------------------------------------------------------------
(* Cache management methods *)

\* null is << >>; the data found is <<data>>.
NoData == << >>

_getCachedData(key) ==
  IF key \in DOMAIN cache /\ (now - cache[key].timestamp) < RELATIONS_CACHE_TTL
  THEN <<cache[key].data>>
  ELSE NoData

_cacheData(c, key, data) ==
  [k \in (DOMAIN c) \cup {key} |->
     IF k = key THEN [data |-> data, timestamp |-> now] ELSE c[k]]

\* Variant: only the key equal to the type is removed.
InvalidateExactKey(c, relationType) ==
  [k \in {x \in DOMAIN c : x # Chars[relationType]} |-> c[k]]

_invalidateCache(c, relationType) ==
  [k \in {x \in DOMAIN c : ~StartsWith(x, Chars[relationType])} |-> c[k]]

_clearAllCaches == << >>

-----------------------------------------------------------------------------
(* Rows and the upsert statement *)

Key(r) == <<r.st, r.sv, r.tt, r.tv>>

\* metadata.firstSeen || new Date()  and  metadata.timestamp || new Date():
\* an absent (or falsy) field is 0 here.
OrNow(v) == IF v # 0 THEN v ELSE now

\* Variant: DO UPDATE SET last_seen = EXCLUDED.last_seen, without the CASE.
UpsertedRowLastWins(rows, st, sv, tt, tv, metadata, fs, ls) ==
  LET hit == {r \in rows : Key(r) = <<st, sv, tt, tv>>} IN
  IF hit = {}
  THEN {[st |-> st, sv |-> sv, tt |-> tt, tv |-> tv, metadata |-> metadata,
         firstSeen |-> fs, lastSeen |-> ls, strength |-> 1, cc |-> 1]}
  ELSE {[r EXCEPT !.lastSeen = ls,
                  !.metadata = metadata,
                  !.strength = r.strength + 1,
                  !.cc = r.cc + 1] : r \in hit}

\* Variant: ON CONFLICT leaves connection_count as it is.
UpsertedRowCountKept(rows, st, sv, tt, tv, metadata, fs, ls) ==
  LET hit == {r \in rows : Key(r) = <<st, sv, tt, tv>>} IN
  IF hit = {}
  THEN {[st |-> st, sv |-> sv, tt |-> tt, tv |-> tv, metadata |-> metadata,
         firstSeen |-> fs, lastSeen |-> ls, strength |-> 1, cc |-> 1]}
  ELSE {[r EXCEPT !.lastSeen = IF ls > r.lastSeen THEN ls ELSE r.lastSeen,
                  !.metadata = metadata,
                  !.strength = r.strength + 1] : r \in hit}

UpsertedRow(rows, st, sv, tt, tv, metadata, fs, ls) ==
  LET hit == {r \in rows : Key(r) = <<st, sv, tt, tv>>} IN
  IF hit = {}
  THEN {[st |-> st, sv |-> sv, tt |-> tt, tv |-> tv, metadata |-> metadata,
         firstSeen |-> fs, lastSeen |-> ls, strength |-> 1, cc |-> 1]}
  ELSE {[r EXCEPT !.lastSeen = IF ls > r.lastSeen THEN ls ELSE r.lastSeen,
                  !.metadata = metadata,
                  !.strength = r.strength + 1,
                  !.cc = r.cc + 1] : r \in hit}

\* Variant: a plain INSERT, the row with the key left in place.
UpsertRowsInsertOnly(rows, st, sv, tt, tv, metadata, fs, ls) ==
  rows \cup UpsertedRow(rows, st, sv, tt, tv, metadata, fs, ls)

UpsertRows(rows, st, sv, tt, tv, metadata, fs, ls) ==
  {r \in rows : Key(r) # <<st, sv, tt, tv>>}
    \cup UpsertedRow(rows, st, sv, tt, tv, metadata, fs, ls)

-----------------------------------------------------------------------------
(* Transactions: a client's uncommitted deletions and insertions.  Other    *)
(* callers see the committed rows only; a statement of theirs that would    *)
(* write a row the transaction has written waits for it to end.             *)

NoTx == [open |-> FALSE, del |-> {}, ins |-> {}]

View(s) == (store \ tx[s].del) \cup tx[s].ins

Written(s, rows) ==
  [open |-> TRUE, del |-> store \ rows, ins |-> rows \ store]

LockedBy(s) == {Key(r) : r \in tx[s].del \cup tx[s].ins}

Free(s, keys) == \A o \in Slots \ {s} : keys \cap LockedBy(o) = {}

CountersBelow(n) ==
  \A s \in Slots : \A r \in View(s) : r.strength + n <= MaxCount /\ r.cc + n <= MaxCount

-----------------------------------------------------------------------------
(* Calls *)

Idle == [op |-> "none"]

Done(s, c, out, val) ==
  /\ pc' = [pc EXCEPT ![s] = "done"]
  /\ call' = [call EXCEPT ![s] = [c EXCEPT !.out = out, !.val = val]]

\* The caller takes the settled promise.
Return(s) ==
  /\ pc[s] = "done"
  /\ pc' = [pc EXCEPT ![s] = "idle"]
  /\ call' = [call EXCEPT ![s] = Idle]
  /\ UNCHANGED <<now, store, cache, tx>>

Tick ==
  /\ ((now - T0) % DAY_MS) \div ClockStep < MaxTicks
  /\ now' = now + ClockStep
  /\ UNCHANGED <<store, cache, pc, call, tx>>

-----------------------------------------------------------------------------
(* upsertRelation *)

UpsertRelationCall(s, st, sv, tt, tv, metadata) ==
  /\ pc[s] = "idle"
  /\ CountersBelow(1)
  /\ cache' = _invalidateCache(_invalidateCache(cache, st), tt)
  /\ call' = [call EXCEPT ![s] =
       [op |-> "upsertRelation", st |-> st, sv |-> sv, tt |-> tt, tv |-> tv,
        metadata |-> metadata, fs |-> OrNow(metadata.firstSeen),
        ls |-> OrNow(metadata.timestamp), out |-> "none", val |-> << >>]]
  /\ pc' = [pc EXCEPT ![s] = "upsert_query"]
  /\ UNCHANGED <<now, store, tx>>

UpsertRelationQuery(s) ==
  /\ pc[s] = "upsert_query"
  /\ LET c == call[s] IN
     \/ /\ Free(s, {<<c.st, c.sv, c.tt, c.tv>>})
        /\ store' = UpsertRows(store, c.st, c.sv, c.tt, c.tv, c.metadata, c.fs, c.ls)
        /\ call' = [call EXCEPT ![s].val =
             UpsertedRow(store, c.st, c.sv, c.tt, c.tv, c.metadata, c.fs, c.ls)]
        /\ pc' = [pc EXCEPT ![s] = "upsert_resume"]
     \/ /\ UNCHANGED store
        /\ call' = [call EXCEPT ![s].out = "error"]
        /\ pc' = [pc EXCEPT ![s] = "upsert_resume"]
  /\ UNCHANGED <<now, cache, tx>>

UpsertRelationResume(s) ==
  /\ pc[s] = "upsert_resume"
  /\ IF call[s].out = "error"
     THEN Done(s, call[s], "error", << >>)
     ELSE Done(s, call[s], "ok", call[s].val)
  /\ UNCHANGED <<now, store, cache, tx>>

\* A day passes (the service is up for longer than the pruning horizon).
DayPasses ==
  /\ (now - T0) \div DAY_MS < MaxDays
  /\ now' = now + DAY_MS
  /\ UNCHANGED <<store, cache, pc, call, tx>>

-----------------------------------------------------------------------------
(* batchUpsertRelations *)

\* A missing or empty list: nothing is done.
BatchUpsertEmpty(s) ==
  /\ pc[s] = "idle"
  /\ Done(s, [op |-> "batchUpsertRelations", relations |-> << >>, todo |-> << >>,
              results |-> << >>, typesToInvalidate |-> {}, applied |-> << >>,
              before |-> store, cacheBefore |-> cache, thrown |-> FALSE,
              out |-> "none", val |-> << >>],
          "ok", << >>)
  /\ UNCHANGED <<now, store, cache, tx>>

\* db.pool.connect() and BEGIN.
BatchUpsertBegin(s, relations, ok) ==
  /\ pc[s] = "idle"
  /\ Len(relations) > 0
  /\ CountersBelow(Len(relations))
  /\ \A o \in Slots : ~tx[o].open
  /\ call' = [call EXCEPT ![s] =
       [op |-> "batchUpsertRelations", relations |-> relations, todo |-> relations,
        results |-> << >>, typesToInvalidate |-> {}, applied |-> << >>,
        before |-> store, cacheBefore |-> cache, thrown |-> ~ok,
        out |-> "none", val |-> << >>]]
  /\ tx' = [tx EXCEPT ![s] = IF ok THEN Written(s, store) ELSE NoTx]
  /\ pc' = [pc EXCEPT ![s] = IF ok THEN "batch_rows" ELSE "batch_rollback"]
  /\ UNCHANGED <<now, store, cache>>

\* One turn of the loop: the row's upsert on the client, or its failure.
BatchUpsertRow(s) ==
  /\ pc[s] = "batch_rows"
  /\ Len(call[s].todo) > 0
  /\ LET c == call[s]
         r == Head(c.todo)
         fs == OrNow(r.metadata.firstSeen)
         ls == OrNow(r.metadata.timestamp)
         types == c.typesToInvalidate \cup {r.st, r.tt}
     IN
     \/ /\ Free(s, {<<r.st, r.sv, r.tt, r.tv>>})
        /\ tx' = [tx EXCEPT ![s] =
             Written(s, UpsertRows(View(s), r.st, r.sv, r.tt, r.tv, r.metadata, fs, ls))]
        /\ call' = [call EXCEPT ![s] =
             [c EXCEPT !.todo = Tail(c.todo),
                       !.typesToInvalidate = types,
                       !.results = c.results \o
                          <<UpsertedRow(View(s), r.st, r.sv, r.tt, r.tv, r.metadata, fs, ls)>>,
                       !.applied = Append(c.applied, <<r.st, r.sv, r.tt, r.tv, ls>>)]]
        /\ pc' = pc
     \/ /\ tx' = tx
        /\ call' = [call EXCEPT ![s] =
             [c EXCEPT !.typesToInvalidate = types, !.thrown = TRUE]]
        /\ pc' = [pc EXCEPT ![s] = "batch_rollback"]
  /\ UNCHANGED <<now, store, cache>>

Commit(s) ==
  /\ store' = View(s)
  /\ tx' = [tx EXCEPT ![s] = NoTx]

\* Variant: the catch block ends the transaction without undoing it.
RollbackKeepsWrites(s) ==
  /\ store' = View(s)
  /\ tx' = [tx EXCEPT ![s] = NoTx]

Rollback(s) ==
  /\ store' = store
  /\ tx' = [tx EXCEPT ![s] = NoTx]

BatchUpsertCommit(s) ==
  /\ pc[s] = "batch_rows"
  /\ Len(call[s].todo) = 0
  /\ \/ /\ Commit(s)
        /\ pc' = [pc EXCEPT ![s] = "batch_committed"]
        /\ call' = call
     \/ /\ UNCHANGED <<store, tx>>
        /\ pc' = [pc EXCEPT ![s] = "batch_rollback"]
        /\ call' = [call EXCEPT ![s].thrown = TRUE]
  /\ UNCHANGED <<now, cache>>

\* catch: ROLLBACK, release, rethrow.
BatchUpsertRollback(s) ==
  /\ pc[s] = "batch_rollback"
  /\ Rollback(s)
  /\ Done(s, call[s], "error", << >>)
  /\ UNCHANGED <<now, cache>>

\* Variant: the types met are not invalidated.
InvalidateNone(c, types) == c

RECURSIVE InvalidateAll(_, _)
InvalidateAll(c, types) ==
  IF types = {} THEN c
  ELSE LET t == CHOOSE x \in types : TRUE
       IN InvalidateAll(_invalidateCache(c, t), types \ {t})

\* After COMMIT: release, invalidate the caches of the types met, return.
BatchUpsertFinish(s) ==
  /\ pc[s] = "batch_committed"
  /\ cache' = InvalidateAll(cache, call[s].typesToInvalidate)
  /\ Done(s, call[s], "ok", call[s].results)
  /\ UNCHANGED <<now, store, tx>>

-----------------------------------------------------------------------------
(* updateFieldValue *)

\* !v of a string argument: the empty string stands for the falsy values.
\* Variant: the guard misses the falsy values.
FalsyNever(v) == FALSE

Falsy(v) == v = ""

Max(a, b) == IF a > b THEN a ELSE b

\* The rows of R in any order (a SELECT without ORDER BY).
AnyOrder(R) ==
  LET n == Cardinality(R) IN
  {q \in [1..n -> R] : \A i, j \in 1..n : i # j => q[i] # q[j]}

\* The key of r with the given endpoints is the key of a row.
Taken(rows, r, sv, tv) == \E q \in rows : Key(q) = <<r.st, sv, r.tt, tv>>

\* Variant: ON CONFLICT adds the strengths as the plain upsert does.
ReinsertRowsAdding(rows, r, sv, tv, ls) ==
  LET k == <<r.st, sv, r.tt, tv>>
      hit == {q \in rows : Key(q) = k}
  IN {q \in rows : Key(q) # k} \cup
     (IF hit = {}
      THEN {[r EXCEPT !.sv = sv, !.tv = tv, !.lastSeen = ls]}
      ELSE {[q EXCEPT !.lastSeen = ls,
                      !.strength = q.strength + r.strength,
                      !.cc = q.cc + 1,
                      !.metadata = r.metadata] : q \in hit})

\* INSERT ... ON CONFLICT DO UPDATE of the rename: the row r re-inserted with
\* the given endpoints and last_seen = ls.
ReinsertRows(rows, r, sv, tv, ls) ==
  LET k == <<r.st, sv, r.tt, tv>>
      hit == {q \in rows : Key(q) = k}
  IN {q \in rows : Key(q) # k} \cup
     (IF hit = {}
      THEN {[r EXCEPT !.sv = sv, !.tv = tv, !.lastSeen = ls]}
      ELSE {[q EXCEPT !.lastSeen = ls,
                      !.strength = Max(q.strength, r.strength),
                      !.cc = q.cc + 1,
                      !.metadata = r.metadata] : q \in hit})

\* The call up to its first await.  merged records that a re-insert of this
\* call has met a row with its key.
UpdateFieldValueEnters(s, fieldType, oldValue, newValue) ==
  /\ pc[s] = "idle"
  /\ LET c == [op |-> "updateFieldValue", fieldType |-> fieldType,
               oldValue |-> oldValue, newValue |-> newValue,
               sourceRows |-> << >>, targetRows |-> << >>,
               sourceCount |-> 0, targetCount |-> 0,
               statements |-> 0, thrown |-> FALSE, before |-> store,
               cacheBefore |-> cache, merged |-> FALSE,
               out |-> "none", val |-> 0]
     IN IF Falsy(oldValue) \/ Falsy(newValue) \/ oldValue = newValue
        THEN /\ Done(s, c, "ok", 0)
             /\ cache' = cache
        ELSE /\ cache' = _invalidateCache(cache, fieldType)
             /\ call' = [call EXCEPT ![s] = c]
             /\ pc' = [pc EXCEPT ![s] = "rename_begin"]
  /\ UNCHANGED <<now, store, tx>>

UpdateFieldValueCall(s, fieldType, oldValue, newValue) ==
  /\ CountersBelow(2)
  /\ UpdateFieldValueEnters(s, fieldType, oldValue, newValue)

\* A statement of the rename failed: on to the catch block.
RenameThrows(s) ==
  /\ call' = [call EXCEPT ![s].thrown = TRUE, ![s].statements = @ + 1]
  /\ pc' = [pc EXCEPT ![s] = "rename_rollback"]
  /\ UNCHANGED <<store, tx>>

\* Variant: the statements are not in a transaction, each is committed as it
\* is done.
RenameNextAutocommit(s, c, rows, to) ==
  /\ call' = [call EXCEPT ![s] = [c EXCEPT !.statements = @ + 1]]
  /\ tx' = [tx EXCEPT ![s] = [NoTx EXCEPT !.open = TRUE]]
  /\ pc' = [pc EXCEPT ![s] = to]
  /\ store' = rows

RenameNext(s, c, rows, to) ==
  /\ call' = [call EXCEPT ![s] = [c EXCEPT !.statements = @ + 1]]
  /\ tx' = [tx EXCEPT ![s] = Written(s, rows)]
  /\ pc' = [pc EXCEPT ![s] = to]
  /\ store' = store

\* db.pool.connect() and BEGIN.
UpdateFieldValueBegin(s) ==
  /\ pc[s] = "rename_begin"
  /\ \A o \in Slots : ~tx[o].open
  /\ \/ RenameNext(s, call[s], store, "rename_select_source")
     \/ RenameThrows(s)
  /\ UNCHANGED <<now, cache>>

UpdateFieldValueSelectSource(s) ==
  /\ pc[s] = "rename_select_source"
  /\ LET c == call[s] IN
     \/ \E q \in AnyOrder({r \in View(s) : r.st = c.fieldType /\ r.sv = c.oldValue}) :
          RenameNext(s, [c EXCEPT !.sourceRows = q, !.sourceCount = Len(q)],
                     View(s), "rename_select_target")
     \/ RenameThrows(s)
  /\ UNCHANGED <<now, cache>>

UpdateFieldValueSelectTarget(s) ==
  /\ pc[s] = "rename_select_target"
  /\ LET c == call[s] IN
     \/ \E q \in AnyOrder({r \in View(s) : r.tt = c.fieldType /\ r.tv = c.oldValue}) :
          RenameNext(s, [c EXCEPT !.targetRows = q, !.targetCount = Len(q)],
                     View(s), "rename_delete_source")
     \/ RenameThrows(s)
  /\ UNCHANGED <<now, cache>>

UpdateFieldValueDeleteSource(s) ==
  /\ pc[s] = "rename_delete_source"
  /\ LET c == call[s] IN
     \/ RenameNext(s, c, {r \in View(s) : ~(r.st = c.fieldType /\ r.sv = c.oldValue)},
                   "rename_delete_target")
     \/ RenameThrows(s)
  /\ UNCHANGED <<now, cache>>

UpdateFieldValueDeleteTarget(s) ==
  /\ pc[s] = "rename_delete_target"
  /\ LET c == call[s] IN
     \/ RenameNext(s, c, {r \in View(s) : ~(r.tt = c.fieldType /\ r.tv = c.oldValue)},
                   "rename_insert")
     \/ RenameThrows(s)
  /\ UNCHANGED <<now, cache>>

\* One turn of the first loop, then of the second one.
UpdateFieldValueInsert(s) ==
  /\ pc[s] = "rename_insert"
  /\ Len(call[s].sourceRows) + Len(call[s].targetRows) > 0
  /\ LET c == call[s] IN
     \/ IF Len(c.sourceRows) > 0
        THEN LET r == Head(c.sourceRows) IN
             RenameNext(s, [c EXCEPT !.sourceRows = Tail(@),
                                     !.merged = @ \/ Taken(View(s), r, c.newValue, r.tv)],
                        ReinsertRows(View(s), r, c.newValue, r.tv, now), "rename_insert")
        ELSE LET r == Head(c.targetRows) IN
             RenameNext(s, [c EXCEPT !.targetRows = Tail(@),
                                     !.merged = @ \/ Taken(View(s), r, r.sv, c.newValue)],
                        ReinsertRows(View(s), r, r.sv, c.newValue, now), "rename_insert")
     \/ RenameThrows(s)
  /\ UNCHANGED <<now, cache>>

UpdateFieldValueCommit(s) ==
  /\ pc[s] = "rename_insert"
  /\ Len(call[s].sourceRows) + Len(call[s].targetRows) = 0
  /\ \/ /\ Commit(s)
        /\ call' = [call EXCEPT ![s].statements = @ + 1]
        /\ pc' = [pc EXCEPT ![s] = "rename_committed"]
     \/ RenameThrows(s)
  /\ UNCHANGED <<now, cache>>

UpdateFieldValueRollback(s) ==
  /\ pc[s] = "rename_rollback"
  /\ Rollback(s)
  /\ Done(s, call[s], "error", 0)
  /\ UNCHANGED <<now, cache>>

UpdateFieldValueFinish(s) ==
  /\ pc[s] = "rename_committed"
  /\ Done(s, call[s], "ok", call[s].sourceCount + call[s].targetCount)
  /\ UNCHANGED <<now, store, cache, tx>>

-----------------------------------------------------------------------------
(* updateUserCommands *)

\* UPDATE relations SET source_value = $1
\* WHERE source_type = 'username' AND source_value = $2
Touched(rows, oldUsername) ==
  {r \in rows : r.st = "username" /\ r.sv = oldUsername}

\* Variant: the statement also counts the rename as a sighting.
RenamedCounting(rows, oldUsername, newUsername) ==
  (rows \ Touched(rows, oldUsername))
    \cup {[r EXCEPT !.sv = newUsername, !.strength = @ + 1] :
            r \in Touched(rows, oldUsername)}

Renamed(rows, oldUsername, newUsername) ==
  (rows \ Touched(rows, oldUsername))
    \cup {[r EXCEPT !.sv = newUsername] : r \in Touched(rows, oldUsername)}

\* The unique index refuses the statement when a row it changes would take
\* the key of a row it leaves.
UniqueViolation(rows, oldUsername, newUsername) ==
  \E r \in Touched(rows, oldUsername), q \in rows \ Touched(rows, oldUsername) :
    Key([r EXCEPT !.sv = newUsername]) = Key(q)

UpdateUserCommandsCall(s, oldUsername, newUsername) ==
  /\ pc[s] = "idle"
  /\ cache' = _invalidateCache(_invalidateCache(cache, "username"), "user_commands")
  /\ call' = [call EXCEPT ![s] =
       [op |-> "updateUserCommands", oldUsername |-> oldUsername,
        newUsername |-> newUsername, before |-> store, cacheBefore |-> cache,
        out |-> "none", val |-> 0]]
  /\ pc' = [pc EXCEPT ![s] = "commands_update"]
  /\ UNCHANGED <<now, store, tx>>

UpdateUserCommandsQuery(s) ==
  /\ pc[s] = "commands_update"
  /\ LET c == call[s] IN
     \/ /\ ~UniqueViolation(store, c.oldUsername, c.newUsername)
        /\ Free(s, {Key(r) : r \in Touched(store, c.oldUsername)}
                     \cup {Key([r EXCEPT !.sv = c.newUsername]) :
                             r \in Touched(store, c.oldUsername)})
        /\ store' = Renamed(store, c.oldUsername, c.newUsername)
        /\ call' = [call EXCEPT ![s].val = Cardinality(Touched(store, c.oldUsername))]
     \/ /\ store' = store
        /\ call' = [call EXCEPT ![s].out = "error"]
  /\ pc' = [pc EXCEPT ![s] = "commands_resume"]
  /\ UNCHANGED <<now, cache, tx>>

UpdateUserCommandsResume(s) ==
  /\ pc[s] = "commands_resume"
  /\ IF call[s].out = "error"
     THEN Done(s, call[s], "error", 0)
     ELSE Done(s, call[s], "ok", call[s].val)
  /\ UNCHANGED <<now, store, cache, tx>>

-----------------------------------------------------------------------------
(* deleteOldRelations *)

\* Variant: WHERE last_seen <= ...
OldOrAtTheLimit(rows, days) == {r \in rows : r.lastSeen <= now - DAY_MS * days}

\* WHERE last_seen < NOW() - INTERVAL '1 day' * $1
Old(rows, days) == {r \in rows : r.lastSeen < now - DAY_MS * days}

DeleteOldRelationsCall(s, days) ==
  /\ pc[s] = "idle"
  /\ call' = [call EXCEPT ![s] =
       [op |-> "deleteOldRelations", days |-> days, before |-> store, at |-> 0,
        cached |-> DOMAIN cache, out |-> "none", val |-> 0]]
  /\ pc' = [pc EXCEPT ![s] = "delete_query"]
  /\ UNCHANGED <<now, store, cache, tx>>

DeleteOldRelationsQuery(s) ==
  /\ pc[s] = "delete_query"
  /\ \/ /\ Free(s, {Key(r) : r \in Old(store, call[s].days)})
        /\ store' = store \ Old(store, call[s].days)
        /\ call' = [call EXCEPT ![s].val = Cardinality(Old(store, call[s].days)),
                                ![s].at = now]
     \/ /\ store' = store
        /\ call' = [call EXCEPT ![s].out = "error", ![s].at = now]
  /\ pc' = [pc EXCEPT ![s] = "delete_resume"]
  /\ UNCHANGED <<now, cache, tx>>

DeleteOldRelationsResume(s) ==
  /\ pc[s] = "delete_resume"
  /\ IF call[s].out = "error"
     THEN /\ Done(s, call[s], "error", 0)
          /\ cache' = cache
     ELSE /\ cache' = _clearAllCaches
          /\ Done(s, call[s], "ok", call[s].val)
  /\ UNCHANGED <<now, store, tx>>

-----------------------------------------------------------------------------
(* The read statements.  Rows come back ORDER BY last_seen DESC; rows with   *)
(* equal last_seen come back in any order, and ROW_NUMBER() numbers them in  *)
(* any order.                                                                *)

Min(a, b) == IF a < b THEN a ELSE b

\* Every ordering of the rows of R that is non-increasing in lastSeen.
ByLastSeenDesc(R) ==
  LET n == Cardinality(R) IN
  {q \in [1..n -> R] :
     /\ \A i, j \in 1..n : i # j => q[i] # q[j]
     /\ \A i, j \in 1..n : i < j => q[i].lastSeen >= q[j].lastSeen}


\* WHERE source_type = $1 OR target_type = $1
Matching(rows, type) == {r \in rows : r.st = type \/ r.tt = type}

\* Variant: the window is partitioned by the value of the opposite endpoint.
OtherSideOf(r, type) == IF r.st = type THEN r.tv ELSE r.sv

\* PARTITION BY CASE WHEN source_type = $1 THEN source_value ELSE target_value END
PartitionOf(r, type) == IF r.st = type THEN r.sv ELSE r.tv

\* The rows numbered 1..limit by ROW_NUMBER() OVER (... ORDER BY last_seen DESC)
\* in a partition p, for each way of numbering it.
Numbered(p, limit) ==
  {{q[i] : i \in 1..Min(limit, Len(q))} : q \in ByLastSeenDesc(p)}

\* The sets of rows with row_num <= limit that the window can produce.
Ranked(rows, type, limit) ==
  LET M == Matching(rows, type)
      P(v) == {r \in M : PartitionOf(r, type) = v}
  IN {R \in SUBSET M :
        \A r \in M : (R \cap P(PartitionOf(r, type))) \in Numbered(P(PartitionOf(r, type)), limit)}

RelationsQuery(rows, type, limit) ==
  UNION {ByLastSeenDesc(R) : R \in Ranked(rows, type, limit)}

UserCommandsQuery(rows) ==
  {[i \in DOMAIN q |->
      [username |-> q[i].sv, command |-> q[i].tv, first_seen |-> q[i].firstSeen,
       last_seen |-> q[i].lastSeen, metadata |-> q[i].metadata]] :
     q \in ByLastSeenDesc({r \in rows : r.st = "username" /\ r.tt = "command"})}

Related(row) ==
  [target |-> row.tv, type |-> row.tt, strength |-> row.strength,
   connectionCount |-> row.cc, firstSeen |-> row.firstSeen,
   lastSeen |-> row.lastSeen, metadata |-> row.metadata]

\* Variant: every row opens a group of its own.
FormatIntoUngrouped(groups, rows) ==
  groups \o [i \in DOMAIN rows |->
              [source |-> rows[i].sv, type |-> rows[i].st,
               related |-> <<Related(rows[i])>>]]

RECURSIVE FormatInto(_, _)
FormatInto(groups, rows) ==
  IF rows = << >> THEN groups
  ELSE
    LET row == Head(rows)
        at == {i \in DOMAIN groups : groups[i].source = row.sv}
    IN IF at = {}
       THEN FormatInto(Append(groups, [source |-> row.sv, type |-> row.st,
                                       related |-> <<Related(row)>>]), Tail(rows))
       ELSE FormatInto([i \in DOMAIN groups |->
                          IF i \in at
                          THEN [groups[i] EXCEPT !.related = Append(@, Related(row))]
                          ELSE groups[i]], Tail(rows))

formatRelations(rows) == FormatInto(<< >>, rows)

-----------------------------------------------------------------------------
(* getRelations *)

GetRelationsCall(s, type, limit) ==
  /\ pc[s] = "idle"
  /\ LET cachedData == _getCachedData(RelationsKey(type, limit))
         c == [op |-> "getRelations", type |-> type, limit |-> limit,
               cacheKey |-> RelationsKey(type, limit), queried |-> FALSE,
               rows |-> << >>, out |-> "none", val |-> << >>]
     IN IF cachedData # NoData
        THEN Done(s, c, "ok", cachedData[1])
        ELSE /\ call' = [call EXCEPT ![s] = c]
             /\ pc' = [pc EXCEPT ![s] = "get_query"]
  /\ UNCHANGED <<now, store, cache, tx>>

GetRelationsQuery(s) ==
  /\ pc[s] = "get_query"
  /\ \/ \E rows \in RelationsQuery(store, call[s].type, call[s].limit) :
          call' = [call EXCEPT ![s].rows = rows, ![s].queried = TRUE]
     \/ call' = [call EXCEPT ![s].out = "error", ![s].queried = TRUE]
  /\ pc' = [pc EXCEPT ![s] = "get_resume"]
  /\ UNCHANGED <<now, store, cache, tx>>

GetRelationsResume(s) ==
  /\ pc[s] = "get_resume"
  /\ IF call[s].out = "error"
     THEN /\ Done(s, call[s], "error", << >>)
          /\ cache' = cache
     ELSE LET formattedRelations == formatRelations(call[s].rows) IN
          /\ cache' = _cacheData(cache, call[s].cacheKey, formattedRelations)
          /\ Done(s, call[s], "ok", formattedRelations)
  /\ UNCHANGED <<now, store, tx>>

-----------------------------------------------------------------------------
(* getRelationsByValue *)

\* WHERE (source_type = $1 AND source_value = $2)
\*    OR (target_type = $1 AND target_value = $2)  ORDER BY last_seen DESC
RelationsByValueQuery(rows, type, value) ==
  ByLastSeenDesc({r \in rows : \/ r.st = type /\ r.sv = value
                               \/ r.tt = type /\ r.tv = value})

GetRelationsByValueCall(s, type, value) ==
  /\ pc[s] = "idle"
  /\ call' = [call EXCEPT ![s] =
               [op |-> "getRelationsByValue", type |-> type, value |-> value,
                queried |-> FALSE, rows |-> << >>, out |-> "none", val |-> << >>]]
  /\ pc' = [pc EXCEPT ![s] = "byvalue_query"]
  /\ UNCHANGED <<now, store, cache, tx>>

GetRelationsByValueQuery(s) ==
  /\ pc[s] = "byvalue_query"
  /\ \/ \E rows \in RelationsByValueQuery(store, call[s].type, call[s].value) :
          call' = [call EXCEPT ![s].rows = rows, ![s].queried = TRUE]
     \/ call' = [call EXCEPT ![s].out = "error", ![s].queried = TRUE]
  /\ pc' = [pc EXCEPT ![s] = "byvalue_resume"]
  /\ UNCHANGED <<now, store, cache, tx>>

GetRelationsByValueResume(s) ==
  /\ pc[s] = "byvalue_resume"
  /\ IF call[s].out = "error"
     THEN Done(s, call[s], "error", << >>)
     ELSE Done(s, call[s], "ok", formatRelations(call[s].rows))
  /\ UNCHANGED <<now, store, cache, tx>>

-----------------------------------------------------------------------------
(* getUserCommands *)

GetUserCommandsCall(s) ==
  /\ pc[s] = "idle"
  /\ LET cachedData == _getCachedData(UserCommandsKey)
         c == [op |-> "getUserCommands", cacheKey |-> UserCommandsKey,
               queried |-> FALSE, rows |-> << >>, out |-> "none", val |-> << >>]
     IN IF cachedData # NoData
        THEN Done(s, c, "ok", cachedData[1])
        ELSE /\ call' = [call EXCEPT ![s] = c]
             /\ pc' = [pc EXCEPT ![s] = "cmds_query"]
  /\ UNCHANGED <<now, store, cache, tx>>

GetUserCommandsQuery(s) ==
  /\ pc[s] = "cmds_query"
  /\ \/ \E rows \in UserCommandsQuery(store) :
          call' = [call EXCEPT ![s].rows = rows, ![s].queried = TRUE]
     \/ call' = [call EXCEPT ![s].out = "error", ![s].queried = TRUE]
  /\ pc' = [pc EXCEPT ![s] = "cmds_resume"]
  /\ UNCHANGED <<now, store, cache, tx>>

GetUserCommandsResume(s) ==
  /\ pc[s] = "cmds_resume"
  /\ IF call[s].out = "error"
     THEN /\ Done(s, call[s], "error", << >>)
          /\ cache' = cache
     ELSE /\ cache' = _cacheData(cache, call[s].cacheKey, call[s].rows)
          /\ Done(s, call[s], "ok", call[s].rows)
  /\ UNCHANGED <<now, store, tx>>

-----------------------------------------------------------------------------
(* Observer: what has been upserted, per composite key *)

Bump(h, k, ls) ==
  [x \in (DOMAIN h) \cup {k} |->
     IF x # k THEN h[x]
     ELSE IF k \in DOMAIN h
          THEN [n |-> h[k].n + 1, max |-> IF ls > h[k].max THEN ls ELSE h[k].max]
          ELSE [n |-> 1, max |-> ls]]

RECURSIVE BumpAll(_, _)
BumpAll(h, applied) ==
  IF applied = << >> THEN h
  ELSE LET a == Head(applied)
       IN BumpAll(Bump(h, <<a[1], a[2], a[3], a[4]>>, a[5]), Tail(applied))

Observe(s) ==
  hist' =
    IF pc[s] = "upsert_query" /\ call'[s].out # "error"
    THEN Bump(hist, <<call[s].st, call[s].sv, call[s].tt, call[s].tv>>, call[s].ls)
    ELSE IF pc[s] = "batch_rows" /\ pc'[s] = "batch_committed"
    THEN BumpAll(hist, call[s].applied)
    ELSE hist

-----------------------------------------------------------------------------
(* Observer of the cached reads.                                             *)
(*   acked    the rows that upsertRelation calls have returned               *)
(*   floor    per caller: acked when its read was called                     *)
(*   started  per caller: the time its read was called                       *)
(*   lastCall per <<type, limit>>: the result and call time of the last      *)
(*            getRelations that succeeded, forgotten when a type of the key  *)
(*            is invalidated by an upsertRelation                            *)
(*   lastCalc the same, for the last getRelations that went to the store     *)
(*   dirty    the <<type, limit>> not read since an upsertRelation on the    *)
(*            type completed                                                 *)
(*   recent, computed, must   per caller: lastCall and lastCalc of its key   *)
(*            if less than the TTL old, and whether the key was dirty, when  *)
(*            its read was called                                            *)

Limits == {1, 2}

NoObs ==
  [acked |-> {}, floor |-> [s \in Slots |-> {}], started |-> [s \in Slots |-> 0],
   lastCall |-> << >>, lastCalc |-> << >>, dirty |-> {},
   recent |-> [s \in Slots |-> NoData], computed |-> [s \in Slots |-> NoData],
   must |-> [s \in Slots |-> FALSE], stopped |-> FALSE, lateRun |-> FALSE,
   midRead |-> FALSE, lastStatus |-> << >>, touched |-> {}, gone |-> {}]

Forget(m, types) == [k \in {x \in DOMAIN m : x[1] \notin types} |-> m[k]]

Remember(m, k, v) == [x \in (DOMAIN m) \cup {k} |-> IF x = k THEN v ELSE m[x]]

Within(m, k) ==
  IF k \in DOMAIN m /\ now - m[k].at < RELATIONS_CACHE_TTL THEN <<m[k]>> ELSE NoData

\* What upsertRelation has returned, and what a read may rely on.
ObserveAcks(s) ==
  LET c == call'[s] IN
  obs' =
    IF pc[s] = "upsert_resume" /\ c.out = "ok"
    THEN [obs EXCEPT !.acked = @ \cup c.val]
    ELSE IF pc[s] = "idle" /\ c.op \in {"getRelations", "getUserCommands"}
    THEN [obs EXCEPT !.floor[s] = obs.acked]
    ELSE obs

\* What getRelations has returned, and when.
ObserveReads(s) ==
  LET c == call'[s]
      k == <<c.type, c.limit>>
  IN
  obs' =
    IF pc[s] = "idle" /\ c.op = "upsertRelation"
    THEN [obs EXCEPT !.lastCall = Forget(@, {c.st, c.tt}),
                     !.lastCalc = Forget(@, {c.st, c.tt})]
    ELSE IF pc[s] = "upsert_resume"
    THEN [obs EXCEPT !.dirty = @ \cup ({c.st, c.tt} \X Limits)]
    ELSE IF pc[s] = "idle" /\ c.op = "getRelations"
    THEN LET o == [obs EXCEPT !.started[s] = now,
                              !.recent[s] = Within(obs.lastCall, k),
                              !.computed[s] = Within(obs.lastCalc, k),
                              !.must[s] = k \in obs.dirty,
                              !.dirty = @ \ {k}]
         IN IF pc'[s] = "done"
            THEN [o EXCEPT !.lastCall = Remember(@, k, [val |-> c.val, at |-> now])]
            ELSE o
    ELSE IF pc[s] = "get_resume" /\ c.out = "ok"
    THEN [obs EXCEPT
            !.lastCall = Remember(@, k, [val |-> c.val, at |-> obs.started[s]]),
            !.lastCalc = Remember(@, k, [val |-> c.val, at |-> obs.started[s]])]
    ELSE obs

\* A read has queried the table while a transaction had uncommitted writes.
ObserveMidRead(s) ==
  obs' = [obs EXCEPT !.midRead =
            @ \/ (/\ pc[s] \in {"get_query", "byvalue_query"}
                  /\ call'[s].queried
                  /\ call'[s].out # "error"
                  /\ \E o \in Slots : tx[o].open /\ View(o) # store)]

-----------------------------------------------------------------------------
(* LogRotationManager: configuration and files *)

\* options.logFiles and options.maxLogsPerFile of the instance explored.
logFiles == <<"security_logs.json", "system_logs.json">>
maxLogsPerFile == 2

Files == {logFiles[i] : i \in DOMAIN logFiles}
Tasks == {"t1", "t2", "t3"}

\* What a file holds: a JSON list of n entries, a JSON value that is not a
\* list, or bytes that are not JSON.  Absent is a file that does not exist.
Absent == [kind |-> "absent", n |-> 0]
Contents ==
  [kind : {"list"}, n : 0..MaxEntries]
    \cup {[kind |-> "object", n |-> 0], [kind |-> "garbage", n |-> 0]}

JSONparse(data) ==
  IF data.kind = "garbage"
  THEN [ok |-> FALSE, isArray |-> FALSE, length |-> 0]
  ELSE [ok |-> TRUE, isArray |-> data.kind = "list", length |-> data.n]

\* Variant: the threshold has to be exceeded.
OverThreshold(logs) == logs.length > maxLogsPerFile

\* logs.length >= this.maxLogsPerFile
AtThreshold(logs) == logs.length >= maxLogsPerFile

\* Variant: the files are left as they are.
KeepLogFiles(files, fileNames) == files

\* JSON.stringify([], null, 2)
EmptyArray == [kind |-> "list", n |-> 0]

\* format(new Date(), 'yyyy-MM-dd'): the day of the clock.
DateStr(t) == t \div DAY_MS

\* `logs_${dateStr}_${timestamp}.zip`
ArchiveFileName(t) == <<"logs", DateStr(t), t>>

\* `${path.basename(fileName, '.json')}_${dateStr}.json`
ArchiveName(fileName, t) == <<fileName, DateStr(t)>>

NoDisk ==
  [files |-> [f \in Files |-> Absent], backups |-> {},
   archives |-> << >>, exports |-> << >>]

NoManager == [timer |-> 0, isInitialized |-> FALSE, s3Uploads |-> << >>]

NoTimers == [made |-> 0, live |-> {}, fired |-> 0]

NoTask ==
  [op |-> "none", pc |-> "idle", timer |-> 0, idx |-> 0, rotations |-> << >>,
   file |-> "", data |-> Absent, backupPath |-> << >>, logFiles |-> << >>,
   useS3 |-> FALSE, archiveFileName |-> << >>, thrown |-> "",
   before |-> NoDisk, uploads |-> << >>, name |-> << >>, status |-> "",
   details |-> << >>, out |-> "none", val |-> << >>]

Put(m, k, v) == [x \in DOMAIN m \cup {k} |-> IF x = k THEN v ELSE m[x]]

Range(q) == {q[i] : i \in DOMAIN q}

\* The caller takes the settled promise of a task.
TaskReturn(t) ==
  /\ task[t].pc = "done"
  /\ task[t].op # "timer"
  /\ task' = [task EXCEPT ![t] = NoTask]
  /\ UNCHANGED <<now, disk, mgr, timers, events>>

\* eventLogger.logSystemEvent(name, {...}) has been called.
Event(name, about) == [name |-> name, about |-> about]

Settled(c, out, val) == [c EXCEPT !.pc = "done", !.out = out, !.val = val]

-----------------------------------------------------------------------------
(* How the nested calls of a task settle.  A continuation runs in the same  *)
(* turn as the promise it awaits settles, up to its next await; ev is what  *)
(* the event logger has been given so far in this turn.                     *)

\* checkAndRotate returns or throws: to initialize, or to the caller.
CheckAndRotateSettles(t, c, ok, rotatedFiles, ev) ==
  IF c.op = "initialize"
  THEN IF ok
       THEN /\ timers' = [timers EXCEPT !.made = @ + 1,
                                        !.live = @ \cup {timers.made + 1}]
            /\ mgr' = [mgr EXCEPT !.timer = timers.made + 1, !.isInitialized = TRUE]
            /\ events' = ev \cup {Event("log_rotation_initialized", "")}
            /\ task' = [task EXCEPT ![t] = [c EXCEPT !.pc = "init_event"]]
       ELSE /\ events' = ev \cup {Event("log_rotation_init_error", "")}
            /\ task' = [task EXCEPT ![t] = [c EXCEPT !.pc = "init_error_event"]]
            /\ UNCHANGED <<mgr, timers>>
  ELSE /\ task' = [task EXCEPT ![t] =
            Settled(c, IF ok THEN "ok" ELSE "error",
                    [success |-> ok, rotatedFiles |-> rotatedFiles])]
       /\ events' = ev
       /\ UNCHANGED <<mgr, timers>>

\* Variant: every configured file is rotated, whatever the list given.
RotateLogsEntersAll(c, files, useS3) ==
  [c EXCEPT !.pc = "rot_archive", !.logFiles = logFiles, !.useS3 = useS3,
            !.archiveFileName = ArchiveFileName(now), !.uploads = mgr.s3Uploads]

\* The part of rotateLogs before its first await: the names are made and
\* createArchive is started.
RotateLogsEnters(c, files, useS3) ==
  [c EXCEPT !.pc = "rot_archive", !.logFiles = files, !.useS3 = useS3,
            !.archiveFileName = ArchiveFileName(now), !.uploads = mgr.s3Uploads]

\* rotateLogs returns or throws: to checkAndRotate, or to the caller.
RotateLogsSettles(t, c, ok, ev) ==
  IF c.op \in {"rotateLogs", "forceRotation"}
  THEN /\ task' = [task EXCEPT ![t] =
            Settled(c, IF ok THEN "ok" ELSE "error",
                    [success |-> ok, rotatedFiles |-> c.logFiles,
                     archiveFile |-> c.archiveFileName, s3Export |-> c.useS3])]
       /\ events' = ev
       /\ UNCHANGED <<mgr, timers>>
  ELSE IF ok
       THEN CheckAndRotateSettles(t, c, TRUE, c.rotations, ev)
       ELSE /\ events' = ev \cup {Event("log_rotation_check_failed", "")}
            /\ task' = [task EXCEPT ![t] = [c EXCEPT !.pc = "car_failed_event"]]
            /\ UNCHANGED <<mgr, timers>>

\* checkLogFile returns needsRotation: to the loop of checkAndRotate, or to
\* the caller.
CheckLogFileSettles(t, c, needsRotation, ev) ==
  IF c.op = "checkLogFile"
  THEN /\ task' = [task EXCEPT ![t] = Settled(c, "ok", needsRotation)]
       /\ events' = ev
       /\ UNCHANGED <<mgr, timers>>
  ELSE LET rotations == IF needsRotation THEN Append(c.rotations, c.file)
                        ELSE c.rotations
           d == [c EXCEPT !.rotations = rotations]
       IN IF c.idx < Len(logFiles)
          THEN /\ task' = [task EXCEPT ![t] =
                    [d EXCEPT !.idx = c.idx + 1, !.file = logFiles[c.idx + 1],
                              !.pc = "clf_access"]]
               /\ events' = ev
               /\ UNCHANGED <<mgr, timers>>
          ELSE IF rotations # << >>
          THEN /\ task' = [task EXCEPT ![t] = RotateLogsEnters(d, rotations, FALSE)]
               /\ events' = ev
               /\ UNCHANGED <<mgr, timers>>
          ELSE CheckAndRotateSettles(t, d, TRUE, << >>, ev)

-----------------------------------------------------------------------------
(* checkLogFile *)

CheckLogFileCall(t, fileName) ==
  /\ task[t].pc = "idle"
  /\ task' = [task EXCEPT ![t] =
       [NoTask EXCEPT !.op = "checkLogFile", !.pc = "clf_access",
                      !.file = fileName, !.before = disk]]
  /\ UNCHANGED <<now, disk, mgr, timers, events>>

\* await fs.access(filePath)
CheckLogFileAccess(t) ==
  /\ task[t].pc = "clf_access"
  /\ IF disk.files[task[t].file] = Absent
     THEN CheckLogFileSettles(t, task[t], FALSE, events)
     ELSE /\ task' = [task EXCEPT ![t].pc = "clf_read"]
          /\ UNCHANGED <<mgr, timers, events>>
  /\ UNCHANGED <<now, disk>>

\* await fs.readFile(filePath, 'utf8'), then JSON.parse and the tests on it.
CheckLogFileRead(t) ==
  /\ task[t].pc = "clf_read"
  /\ LET c == task[t]
         data == disk.files[c.file]
         logs == JSONparse(data)
     IN \/ /\ data # Absent
           /\ IF ~logs.ok
              THEN /\ task' = [task EXCEPT ![t] =
                        [c EXCEPT !.data = data, !.backupPath = <<c.file, now>>,
                                  !.pc = "clf_backup"]]
                   /\ UNCHANGED <<mgr, timers, events>>
              ELSE IF ~logs.isArray
              THEN CheckLogFileSettles(t, [c EXCEPT !.data = data], TRUE, events)
              ELSE CheckLogFileSettles(t, [c EXCEPT !.data = data],
                                       AtThreshold(logs), events)
        \/ CheckLogFileSettles(t, [c EXCEPT !.thrown = "read"], FALSE, events)
  /\ UNCHANGED <<now, disk>>

\* await fs.writeFile(backupPath, data), then the corruption event is sent.
CheckLogFileBackup(t) ==
  /\ task[t].pc = "clf_backup"
  /\ LET c == task[t] IN
     \/ /\ disk' = [disk EXCEPT !.backups =
               {b \in @ : b.path # c.backupPath}
                 \cup {[path |-> c.backupPath, data |-> c.data]}]
        /\ events' = events \cup {Event("log_file_corrupted", c.backupPath)}
        /\ task' = [task EXCEPT ![t].pc = "clf_event"]
        /\ UNCHANGED <<mgr, timers>>
     \/ /\ CheckLogFileSettles(t, [c EXCEPT !.thrown = "backup"], FALSE, events)
        /\ UNCHANGED disk
  /\ UNCHANGED now

\* await eventLogger.logSystemEvent('log_file_corrupted', ...)
CheckLogFileEvent(t) ==
  /\ task[t].pc = "clf_event"
  /\ \/ CheckLogFileSettles(t, task[t], TRUE, events)
     \/ CheckLogFileSettles(t, [task[t] EXCEPT !.thrown = "event"], FALSE, events)
  /\ UNCHANGED <<now, disk>>

-----------------------------------------------------------------------------
(* checkAndRotate *)

\* The loop starts with the first file.
CheckAndRotateEnters(c) ==
  [c EXCEPT !.pc = "clf_access", !.idx = 1, !.file = logFiles[1],
            !.rotations = << >>]

CheckAndRotateCall(t) ==
  /\ task[t].pc = "idle"
  /\ task' = [task EXCEPT ![t] =
       CheckAndRotateEnters([NoTask EXCEPT !.op = "checkAndRotate", !.before = disk])]
  /\ UNCHANGED <<now, disk, mgr, timers, events>>

\* await eventLogger.logSystemEvent('log_rotation_check_failed', ...); throw
CheckAndRotateFailedEvent(t) ==
  /\ task[t].pc = "car_failed_event"
  /\ CheckAndRotateSettles(t, task[t], FALSE, task[t].rotations, events)
  /\ UNCHANGED <<now, disk>>

-----------------------------------------------------------------------------
(* rotateLogs, createArchive, resetLogFile, forceRotation *)

RotateLogsCall(t, files, useS3) ==
  /\ task[t].pc = "idle"
  /\ task' = [task EXCEPT ![t] =
       RotateLogsEnters([NoTask EXCEPT !.op = "rotateLogs", !.before = disk],
                        files, useS3)]
  /\ UNCHANGED <<now, disk, mgr, timers, events>>

ForceRotationCall(t, useS3) ==
  /\ task[t].pc = "idle"
  /\ task' = [task EXCEPT ![t] =
       RotateLogsEnters([NoTask EXCEPT !.op = "forceRotation", !.before = disk],
                        logFiles, useS3)]
  /\ UNCHANGED <<now, disk, mgr, timers, events>>

\* Variant: the catch block rethrows without sending the event.
RotateLogsCatchSilent(t, c, step) ==
  /\ events' = events
  /\ task' = [task EXCEPT ![t] = [c EXCEPT !.thrown = step, !.pc = "rot_failed_event"]]
  /\ UNCHANGED <<mgr, timers>>

\* The catch block of rotateLogs: the failure event is sent.
RotateLogsCatch(t, c, step) ==
  /\ events' = events \cup {Event("log_rotation_failed", c.archiveFileName)}
  /\ task' = [task EXCEPT ![t] = [c EXCEPT !.thrown = step, !.pc = "rot_failed_event"]]
  /\ UNCHANGED <<mgr, timers>>

\* What archiver writes for the files it is given: a dated copy of each file
\* it finds, as the file is when it is read.
ArchiveOf(fileNames, archiveFileName, files) ==
  LET found == {f \in fileNames : files[f] # Absent}
  IN [complete |-> TRUE,
      entries |-> [e \in {ArchiveName(f, archiveFileName[3]) : f \in found} |->
                     files[e[1]]]]

\* An archive that was opened and not finished.
Unfinished == [complete |-> FALSE, entries |-> << >>]

\* await this.createArchive(logFiles, archivePath)
RotateLogsArchive(t) ==
  /\ task[t].pc = "rot_archive"
  /\ LET c == task[t] IN
     \/ /\ disk' = [disk EXCEPT !.archives =
               Put(@, c.archiveFileName,
                   ArchiveOf(Range(c.logFiles), c.archiveFileName, disk.files))]
        /\ task' = [task EXCEPT ![t].pc = "rot_copy"]
        /\ UNCHANGED <<mgr, timers, events>>
     \/ /\ \/ disk' = disk
           \/ disk' = [disk EXCEPT !.archives = Put(@, c.archiveFileName, Unfinished)]
        /\ RotateLogsCatch(t, c, "archive")
  /\ UNCHANGED now

\* await fs.copyFile(archivePath, exportPath), then every resetLogFile is started.
RotateLogsCopy(t) ==
  /\ task[t].pc = "rot_copy"
  /\ LET c == task[t] IN
     \/ /\ disk' = [disk EXCEPT !.exports =
               Put(@, c.archiveFileName, disk.archives[c.archiveFileName])]
        /\ task' = [task EXCEPT ![t].pc = "rot_reset"]
        /\ UNCHANGED <<mgr, timers, events>>
     \/ /\ disk' = disk
        /\ RotateLogsCatch(t, c, "copy")
  /\ UNCHANGED now

\* resetLogFile: fs.writeFile(filePath, JSON.stringify([], null, 2))
ResetLogFiles(files, fileNames) ==
  [f \in DOMAIN files |-> IF f \in fileNames THEN EmptyArray ELSE files[f]]

\* await Promise.all(resets): the writes that do not fail are made; then the
\* export status is recorded and the completion event is sent.
RotateLogsReset(t) ==
  /\ task[t].pc = "rot_reset"
  /\ LET c == task[t] IN
     \E failed \in SUBSET Range(c.logFiles) :
       /\ disk' = [disk EXCEPT !.files = ResetLogFiles(@, Range(c.logFiles) \ failed)]
       /\ IF failed = {}
          THEN /\ mgr' = IF c.useS3
                         THEN [mgr EXCEPT !.s3Uploads =
                                 Put(@, c.archiveFileName, [status |-> "pending"])]
                         ELSE mgr
               /\ events' = events \cup {Event("log_rotation_completed", c.archiveFileName)}
               /\ task' = [task EXCEPT ![t].pc = "rot_event"]
               /\ UNCHANGED timers
          ELSE RotateLogsCatch(t, c, "reset")
  /\ UNCHANGED now

\* await eventLogger.logSystemEvent('log_rotation_completed', ...)
RotateLogsEvent(t) ==
  /\ task[t].pc = "rot_event"
  /\ \/ RotateLogsSettles(t, task[t], TRUE, events)
     \/ RotateLogsCatch(t, task[t], "event")
  /\ UNCHANGED <<now, disk>>

\* await eventLogger.logSystemEvent('log_rotation_failed', ...); throw
RotateLogsFailedEvent(t) ==
  /\ task[t].pc = "rot_failed_event"
  /\ RotateLogsSettles(t, task[t], FALSE, events)
  /\ UNCHANGED <<now, disk>>

-----------------------------------------------------------------------------
(* initialize, stop and the interval *)

InitializeCall(t) ==
  /\ task[t].pc = "idle"
  /\ timers.made + Cardinality({u \in Tasks : task[u].op = "initialize"}) < MaxTimers
  /\ task' = [task EXCEPT ![t] =
       IF mgr.isInitialized
       THEN Settled([NoTask EXCEPT !.op = "initialize"], "ok", "undefined")
       ELSE [NoTask EXCEPT !.op = "initialize", !.pc = "init_archive_dir",
                           !.before = disk]]
  /\ UNCHANGED <<now, disk, mgr, timers, events>>

\* The catch block of initialize: the error event is sent.
InitializeCatch(t, c, step) ==
  /\ events' = events \cup {Event("log_rotation_init_error", "")}
  /\ task' = [task EXCEPT ![t] = [c EXCEPT !.thrown = step, !.pc = "init_error_event"]]
  /\ UNCHANGED <<mgr, timers>>

\* await this.ensureDirectoryExists(this.archiveDir)
InitializeArchiveDir(t) ==
  /\ task[t].pc = "init_archive_dir"
  /\ \/ /\ task' = [task EXCEPT ![t].pc = "init_export_dir"]
        /\ UNCHANGED <<mgr, timers, events>>
     \/ InitializeCatch(t, task[t], "mkdir")
  /\ UNCHANGED <<now, disk>>

\* await this.ensureDirectoryExists(this.exportDir), then checkAndRotate starts.
InitializeExportDir(t) ==
  /\ task[t].pc = "init_export_dir"
  /\ \/ /\ task' = [task EXCEPT ![t] = CheckAndRotateEnters(task[t])]
        /\ UNCHANGED <<mgr, timers, events>>
     \/ InitializeCatch(t, task[t], "mkdir")
  /\ UNCHANGED <<now, disk>>

\* await eventLogger.logSystemEvent('log_rotation_initialized', ...); return true
InitializeEvent(t) ==
  /\ task[t].pc = "init_event"
  /\ \/ /\ task' = [task EXCEPT ![t] = Settled(task[t], "ok", TRUE)]
        /\ UNCHANGED <<mgr, timers, events>>
     \/ InitializeCatch(t, task[t], "event")
  /\ UNCHANGED <<now, disk>>

\* await eventLogger.logSystemEvent('log_rotation_init_error', ...); return false
InitializeErrorEvent(t) ==
  /\ task[t].pc = "init_error_event"
  /\ \/ task' = [task EXCEPT ![t] = Settled(task[t], "ok", FALSE)]
     \/ task' = [task EXCEPT ![t] = Settled(task[t], "error", << >>)]
  /\ UNCHANGED <<now, disk, mgr, timers, events>>

stop ==
  /\ IF mgr.timer # 0
     THEN /\ timers' = [timers EXCEPT !.live = @ \ {mgr.timer}]
          /\ mgr' = [mgr EXCEPT !.timer = 0, !.isInitialized = FALSE]
     ELSE UNCHANGED <<mgr, timers>>
  /\ UNCHANGED <<now, disk, task, events>>

\* A live interval elapses: its callback starts a checkAndRotate.
TimerFires(t, id) ==
  /\ id \in timers.live
  /\ timers.fired < MaxFires
  /\ task[t].pc = "idle"
  /\ timers' = [timers EXCEPT !.fired = @ + 1]
  /\ task' = [task EXCEPT ![t] =
       CheckAndRotateEnters([NoTask EXCEPT !.op = "timer", !.timer = id,
                                           !.before = disk])]
  /\ UNCHANGED <<now, disk, mgr, events>>

\* The run of an interval is over; its .catch sends the error event.
TimerRunEnds(t) ==
  /\ task[t].pc = "done"
  /\ task[t].op = "timer"
  /\ events' = IF task[t].out = "error"
               THEN events \cup {Event("log_rotation_error", "")}
               ELSE events
  /\ task' = [task EXCEPT ![t] = NoTask]
  /\ UNCHANGED <<now, disk, mgr, timers>>

-----------------------------------------------------------------------------
(* updateS3UploadStatus, getS3UploadStatus *)

\* { ...a, ...b }: the properties of a, then those of b over them.
Spread(a, b) ==
  [k \in DOMAIN a \cup DOMAIN b |-> IF k \in DOMAIN b THEN b[k] ELSE a[k]]

\* Variant: { ...details, status, updatedAt }.
StatusRecordStatusLast(status, details) ==
  Spread(Spread(details, [status |-> status]), [updatedAt |-> now])

\* { status, ...details, updatedAt: new Date().toISOString() }
StatusRecord(status, details) ==
  Spread(Spread([status |-> status], details), [updatedAt |-> now])

updateS3UploadStatus(t, archiveFileName, status, details) ==
  /\ task[t].pc = "idle"
  /\ mgr' = [mgr EXCEPT !.s3Uploads =
               Put(@, archiveFileName, StatusRecord(status, details))]
  /\ task' = [task EXCEPT ![t] =
       Settled([NoTask EXCEPT !.op = "updateS3UploadStatus",
                              !.name = archiveFileName, !.status = status,
                              !.details = details, !.uploads = mgr.s3Uploads],
               "ok", << >>)]
  /\ UNCHANGED <<now, disk, timers, events>>

\* this.s3Uploads.get(archiveFileName) || null: null is << >>, a record found
\* is in a list of one.
getS3UploadStatus(t, archiveFileName) ==
  /\ task[t].pc = "idle"
  /\ task' = [task EXCEPT ![t] =
       Settled([NoTask EXCEPT !.op = "getS3UploadStatus", !.name = archiveFileName,
                              !.uploads = mgr.s3Uploads],
               "ok",
               IF archiveFileName \in DOMAIN mgr.s3Uploads
               THEN <<mgr.s3Uploads[archiveFileName]>>
               ELSE << >>)]
  /\ UNCHANGED <<now, disk, mgr, timers, events>>

-----------------------------------------------------------------------------
(* The values the calls are given *)

Metadatas == [timestamp : {0, T0 - ClockStep, T0 + ClockStep}, firstSeen : {0}]

UpsertArgs ==
  [st : {"username"}, sv : {"alice"}, tt : {"command"}, tv : {"ls", "whoami"},
   metadata : Metadatas]

RECURSIVE SeqsUpTo(_, _)
SeqsUpTo(S, n) ==
  IF n = 0 THEN {<< >>}
  ELSE LET shorter == SeqsUpTo(S, n - 1)
       IN shorter \cup {Append(q, x) : q \in shorter, x \in S}

Init ==
  /\ now = T0
  /\ store = {}
  /\ cache = << >>
  /\ pc = [s \in Slots |-> "idle"]
  /\ call = [s \in Slots |-> Idle]
  /\ tx = [s \in Slots |-> NoTx]
  /\ hist = << >>
  /\ obs = NoObs
  /\ disk = NoDisk
  /\ mgr = NoManager
  /\ timers = NoTimers
  /\ task = [t \in Tasks |-> NoTask]
  /\ events = {}

\* The same, on one day or on the next, over the log files as the event
\* logger has left them.
InitLogs ==
  /\ now \in {T0, T0 + DAY_MS + ClockStep}
  /\ store = {}
  /\ cache = << >>
  /\ pc = [s \in Slots |-> "idle"]
  /\ call = [s \in Slots |-> Idle]
  /\ tx = [s \in Slots |-> NoTx]
  /\ hist = << >>
  /\ obs = NoObs
  /\ disk \in {[NoDisk EXCEPT !.files = files] :
                files \in [Files -> Contents \cup {Absent}]}
  /\ mgr = NoManager
  /\ timers = NoTimers
  /\ task = [t \in Tasks |-> NoTask]
  /\ events = {}

-----------------------------------------------------------------------------
(* Upserts only, one call after the other *)

UpsertStep(s) ==
  \/ \E a \in UpsertArgs : UpsertRelationCall(s, a.st, a.sv, a.tt, a.tv, a.metadata)
  \/ UpsertRelationQuery(s)
  \/ UpsertRelationResume(s)

BatchStep(s) ==
  \/ BatchUpsertEmpty(s)
  \/ \E rs \in SeqsUpTo(UpsertArgs, MaxBatch), ok \in BOOLEAN : BatchUpsertBegin(s, rs, ok)
  \/ BatchUpsertRow(s)
  \/ BatchUpsertCommit(s)
  \/ BatchUpsertRollback(s)
  \/ BatchUpsertFinish(s)

NextUpsert ==
  \/ BatchStep("A") /\ Observe("A") /\ UNCHANGED obs /\ UNCHANGED lrvars
  \/ UpsertStep("A") /\ Observe("A") /\ UNCHANGED obs /\ UNCHANGED lrvars
  \/ Return("A") /\ UNCHANGED <<hist, obs>> /\ UNCHANGED lrvars

SpecUpsert == Init /\ [][NextUpsert]_vars

-----------------------------------------------------------------------------
(* The cached reads next to upsertRelation.  ReadArgs and WriteArgs are the  *)
(* calls explored.                                                           *)

OneEdge ==
  [st : {"username"}, sv : {"alice"}, tt : {"command"}, tv : {"ls"},
   metadata : [timestamp : {0}, firstSeen : {0}]]

GetRelationsStep(s) ==
  \/ \E l \in Limits : GetRelationsCall(s, "username", l)
  \/ GetRelationsQuery(s)
  \/ GetRelationsResume(s)

GetUserCommandsStep(s) ==
  \/ GetUserCommandsCall(s)
  \/ GetUserCommandsQuery(s)
  \/ GetUserCommandsResume(s)

WriteStep(s) ==
  \/ \E a \in OneEdge : UpsertRelationCall(s, a.st, a.sv, a.tt, a.tv, a.metadata)
  \/ UpsertRelationQuery(s)
  \/ UpsertRelationResume(s)

\* getRelations and upsertRelation, one call after the other, as time passes.
NextCacheSeq ==
  \/ GetRelationsStep("A") /\ ObserveReads("A") /\ UNCHANGED hist /\ UNCHANGED lrvars
  \/ WriteStep("A") /\ ObserveReads("A") /\ UNCHANGED hist /\ UNCHANGED lrvars
  \/ Return("A") /\ UNCHANGED <<hist, obs>> /\ UNCHANGED lrvars
  \/ Tick /\ UNCHANGED <<hist, obs>> /\ UNCHANGED lrvars

SpecCacheSeq == Init /\ [][NextCacheSeq]_vars

\* getUserCommands and upsertRelation, one call after the other.
NextCommands ==
  \/ GetUserCommandsStep("A") /\ ObserveAcks("A") /\ UNCHANGED hist /\ UNCHANGED lrvars
  \/ WriteStep("A") /\ ObserveAcks("A") /\ UNCHANGED hist /\ UNCHANGED lrvars
  \/ Return("A") /\ UNCHANGED <<hist, obs>> /\ UNCHANGED lrvars
  \/ Tick /\ UNCHANGED <<hist, obs>> /\ UNCHANGED lrvars

SpecCommands == Init /\ [][NextCommands]_vars

\* A writer and a reader, interleaved at their awaits.
NextCache ==
  \/ WriteStep("A") /\ ObserveAcks("A") /\ UNCHANGED hist /\ UNCHANGED lrvars
  \/ GetRelationsStep("B") /\ ObserveAcks("B") /\ UNCHANGED hist /\ UNCHANGED lrvars
  \/ \E s \in Slots : Return(s) /\ UNCHANGED <<hist, obs>> /\ UNCHANGED lrvars

SpecCache == Init /\ [][NextCache]_vars

-----------------------------------------------------------------------------
(* Renames of usernames over edges between usernames, one call after the     *)
(* other.                                                                    *)

NoMetadata == [timestamp |-> 0, firstSeen |-> 0]

Dated == [timestamp |-> T0 - ClockStep, firstSeen |-> T0 - ClockStep]

UserEdges ==
  [st : {"username"}, sv : {"alice", "bob"}, tt : {"username"}, tv : {"alice", "bob"},
   metadata : {NoMetadata}]

UpdateFieldValueStep(s, values) ==
  \/ \E o, n \in values : UpdateFieldValueCall(s, "username", o, n)
  \/ UpdateFieldValueBegin(s)
  \/ UpdateFieldValueSelectSource(s)
  \/ UpdateFieldValueSelectTarget(s)
  \/ UpdateFieldValueDeleteSource(s)
  \/ UpdateFieldValueDeleteTarget(s)
  \/ UpdateFieldValueInsert(s)
  \/ UpdateFieldValueCommit(s)
  \/ UpdateFieldValueRollback(s)
  \/ UpdateFieldValueFinish(s)

UserEdgeStep(s) ==
  \/ \E a \in UserEdges : UpsertRelationCall(s, a.st, a.sv, a.tt, a.tv, a.metadata)
  \/ UpsertRelationQuery(s)
  \/ UpsertRelationResume(s)

UsernameReadStep(s) ==
  \/ GetRelationsCall(s, "username", 1)
  \/ GetRelationsQuery(s)
  \/ GetRelationsResume(s)

NextRename ==
  \/ UpdateFieldValueStep("A", {"", "alice", "bob"}) /\ UNCHANGED <<hist, obs>> /\ UNCHANGED lrvars
  \/ UserEdgeStep("A") /\ UNCHANGED <<hist, obs>> /\ UNCHANGED lrvars
  \/ UsernameReadStep("A") /\ UNCHANGED <<hist, obs>> /\ UNCHANGED lrvars
  \/ Return("A") /\ UNCHANGED <<hist, obs>> /\ UNCHANGED lrvars

SpecRename == Init /\ [][NextRename]_vars

-----------------------------------------------------------------------------
(* Pruning, next to the cached reads, one call after the other, over days    *)

AgedEdges ==
  [st : {"username"}, sv : {"alice"}, tt : {"command"}, tv : {"ls", "whoami"},
   metadata : [timestamp : {0, T0 - ClockStep}, firstSeen : {0}]]

AgedEdgeStep(s) ==
  \/ \E a \in AgedEdges : UpsertRelationCall(s, a.st, a.sv, a.tt, a.tv, a.metadata)
  \/ UpsertRelationQuery(s)
  \/ UpsertRelationResume(s)

DeleteOldRelationsStep(s) ==
  \/ \E days \in 0..MaxDays : DeleteOldRelationsCall(s, days)
  \/ DeleteOldRelationsQuery(s)
  \/ DeleteOldRelationsResume(s)

NextPrune ==
  \/ AgedEdgeStep("A") /\ UNCHANGED <<hist, obs>> /\ UNCHANGED lrvars
  \/ DeleteOldRelationsStep("A") /\ UNCHANGED <<hist, obs>> /\ UNCHANGED lrvars
  \/ UsernameReadStep("A") /\ UNCHANGED <<hist, obs>> /\ UNCHANGED lrvars
  \/ GetUserCommandsStep("A") /\ UNCHANGED <<hist, obs>> /\ UNCHANGED lrvars
  \/ Return("A") /\ UNCHANGED <<hist, obs>> /\ UNCHANGED lrvars
  \/ DayPasses /\ UNCHANGED <<hist, obs>> /\ UNCHANGED lrvars

SpecPrune == Init /\ [][NextPrune]_vars

-----------------------------------------------------------------------------
(* getRelations over edges that share a source or a target *)

SharedEdges ==
  {a \in [st : {"username"}, sv : {"alice", "bob"}, tt : {"command"},
          tv : {"ls", "whoami"},
          metadata : [timestamp : {0, T0 - ClockStep}, firstSeen : {0}]] :
     ~(a.sv = "bob" /\ a.tv = "whoami")}

SharedEdgeStep(s) ==
  \/ \E a \in SharedEdges : UpsertRelationCall(s, a.st, a.sv, a.tt, a.tv, a.metadata)
  \/ UpsertRelationQuery(s)
  \/ UpsertRelationResume(s)

AnyReadStep(s) ==
  \/ \E t \in {"username", "command"}, l \in Limits : GetRelationsCall(s, t, l)
  \/ GetRelationsQuery(s)
  \/ GetRelationsResume(s)

NextQuery ==
  \/ SharedEdgeStep("A") /\ UNCHANGED <<hist, obs>> /\ UNCHANGED lrvars
  \/ AnyReadStep("A") /\ UNCHANGED <<hist, obs>> /\ UNCHANGED lrvars
  \/ Return("A") /\ UNCHANGED <<hist, obs>> /\ UNCHANGED lrvars

SpecQuery == Init /\ [][NextQuery]_vars

-----------------------------------------------------------------------------
(* Every operation that writes, one call after the other, over a day *)

UserBatchStep(s) ==
  \/ BatchUpsertEmpty(s)
  \/ \E rs \in SeqsUpTo(UserEdges, MaxBatch), ok \in BOOLEAN : BatchUpsertBegin(s, rs, ok)
  \/ BatchUpsertRow(s)
  \/ BatchUpsertCommit(s)
  \/ BatchUpsertRollback(s)
  \/ BatchUpsertFinish(s)

UpdateUserCommandsStep(s) ==
  \/ \E o, n \in {"alice", "bob"} : UpdateUserCommandsCall(s, o, n)
  \/ UpdateUserCommandsQuery(s)
  \/ UpdateUserCommandsResume(s)

Next ==
  \/ UserEdgeStep("A") /\ UNCHANGED <<hist, obs>> /\ UNCHANGED lrvars
  \/ UserBatchStep("A") /\ UNCHANGED <<hist, obs>> /\ UNCHANGED lrvars
  \/ UpdateFieldValueStep("A", {"alice", "bob"}) /\ UNCHANGED <<hist, obs>> /\ UNCHANGED lrvars
  \/ UpdateUserCommandsStep("A") /\ UNCHANGED <<hist, obs>> /\ UNCHANGED lrvars
  \/ DeleteOldRelationsStep("A") /\ UNCHANGED <<hist, obs>> /\ UNCHANGED lrvars
  \/ Return("A") /\ UNCHANGED <<hist, obs>> /\ UNCHANGED lrvars
  \/ DayPasses /\ UNCHANGED <<hist, obs>> /\ UNCHANGED lrvars

Spec == Init /\ [][Next]_vars

-----------------------------------------------------------------------------
(* The manager called by one caller, one call after the other *)

CheckLogFileRuns(t) ==
  \/ CheckLogFileAccess(t)
  \/ CheckLogFileRead(t)
  \/ CheckLogFileBackup(t)
  \/ CheckLogFileEvent(t)

CheckLogFileStep(t) ==
  \/ \E f \in Files : CheckLogFileCall(t, f)
  \/ CheckLogFileRuns(t)

CheckAndRotateStep(t) ==
  \/ CheckAndRotateCall(t)
  \/ CheckLogFileRuns(t)
  \/ CheckAndRotateFailedEvent(t)

NextCheck ==
  \/ \E t \in {"t1", "t2"} : CheckLogFileStep(t) /\ UNCHANGED relvars
  \/ \E t \in {"t1", "t2"} : TaskReturn(t) /\ UNCHANGED relvars

SpecCheck == InitLogs /\ [][NextCheck]_vars

RotateLogsRuns(t) ==
  \/ RotateLogsArchive(t)
  \/ RotateLogsCopy(t)
  \/ RotateLogsReset(t)
  \/ RotateLogsEvent(t)
  \/ RotateLogsFailedEvent(t)

FileLists == {<<logFiles[1]>>, <<logFiles[2]>>, logFiles}

RotateLogsStep(t) ==
  \/ \E files \in FileLists, useS3 \in BOOLEAN : RotateLogsCall(t, files, useS3)
  \/ \E useS3 \in BOOLEAN : ForceRotationCall(t, useS3)
  \/ RotateLogsRuns(t)

NextRotate ==
  \/ CheckAndRotateStep("t1") /\ UNCHANGED relvars
  \/ RotateLogsStep("t1") /\ UNCHANGED relvars
  \/ TaskReturn("t1") /\ UNCHANGED relvars

SpecRotate == InitLogs /\ [][NextRotate]_vars

-----------------------------------------------------------------------------
(* The export statuses, written by rotations and by updateS3UploadStatus    *)

Statuses == {"pending", "success", "failed"}

Details == {<< >>, [reason |-> "timeout"], [status |-> "failed"]}

StatusNames == {ArchiveFileName(T0), <<"logs", 0, 0>>}

\* What each name was last given: the status argument of an update, pending
\* by a rotation with useS3 whose resets have succeeded; touched are the
\* names a call was given or made.
ObserveStatus(t) ==
  LET c == task'[t] IN
  obs' =
    IF task[t].pc = "idle" /\ c.op = "updateS3UploadStatus"
    THEN [obs EXCEPT !.lastStatus = Put(@, c.name, c.status),
                     !.touched = @ \cup {c.name}]
    ELSE IF task[t].pc = "idle" /\ c.op \in {"rotateLogs", "forceRotation"}
    THEN [obs EXCEPT !.touched = @ \cup {c.archiveFileName}]
    ELSE IF task[t].pc = "rot_reset" /\ c.pc = "rot_event" /\ c.useS3
    THEN [obs EXCEPT !.lastStatus = Put(@, c.archiveFileName, "pending")]
    ELSE obs

StatusStep(t) ==
  \/ \E name \in StatusNames, status \in Statuses, details \in Details :
       updateS3UploadStatus(t, name, status, details)
  \/ \E name \in StatusNames : getS3UploadStatus(t, name)

ForceRotationStep(t) ==
  \/ \E useS3 \in BOOLEAN : ForceRotationCall(t, useS3)
  \/ RotateLogsRuns(t)

NextStatus ==
  \/ ForceRotationStep("t1") /\ ObserveStatus("t1") /\ UNCHANGED relstate
  \/ StatusStep("t1") /\ ObserveStatus("t1") /\ UNCHANGED relstate
  \/ TaskReturn("t1") /\ UNCHANGED relvars

SpecStatus == Init /\ [][NextStatus]_vars

-----------------------------------------------------------------------------
(* initialize and stop called at any time, next to the runs of the          *)
(* interval, before the event logger has made a log file                    *)

InitializeRuns(t) ==
  \/ InitializeArchiveDir(t)
  \/ InitializeExportDir(t)
  \/ InitializeEvent(t)
  \/ InitializeErrorEvent(t)

\* Observer: stop() has returned and initialize() has not been called since;
\* a run of the interval has begun while this was so.
ObserveStop(stopped, begins) ==
  obs' = [obs EXCEPT !.stopped = stopped,
                     !.lateRun = @ \/ (begins /\ obs.stopped)]

Callers == {"t1", "t2"}

NextTimer ==
  \/ \E t \in Callers : InitializeCall(t) /\ ObserveStop(FALSE, FALSE) /\ UNCHANGED relstate
  \/ \E t \in Callers : InitializeRuns(t) /\ UNCHANGED relvars
  \/ \E t \in Tasks : CheckLogFileRuns(t) /\ UNCHANGED relvars
  \/ stop /\ ObserveStop(TRUE, FALSE) /\ UNCHANGED relstate
  \/ \E id \in 1..MaxTimers :
       TimerFires("t3", id) /\ ObserveStop(obs.stopped, TRUE) /\ UNCHANGED relstate
  \/ \E t \in Tasks : TimerRunEnds(t) /\ UNCHANGED relvars
  \/ \E t \in Tasks : TaskReturn(t) /\ UNCHANGED relvars

SpecTimer == Init /\ [][NextTimer]_vars

-----------------------------------------------------------------------------
(* Renames of usernames over edges between a username and a command, in     *)
(* both directions, with counters and dates that differ from edge to edge.  *)

MergeEdges ==
  [st : {"username"}, sv : {"alice"}, tt : {"command"}, tv : {"ls"},
   metadata : {NoMetadata, Dated}]
    \cup [st : {"username"}, sv : {"bob"}, tt : {"command"}, tv : {"ls"},
          metadata : {Dated}]
    \cup [st : {"command"}, sv : {"ls"}, tt : {"username"}, tv : {"alice"},
          metadata : {Dated}]

MergeEdgeStep(s) ==
  \/ \E a \in MergeEdges : UpsertRelationCall(s, a.st, a.sv, a.tt, a.tv, a.metadata)
  \/ UpsertRelationQuery(s)
  \/ UpsertRelationResume(s)

MergeBatchStep(s) ==
  \/ \E rs \in SeqsUpTo(MergeEdges, 1) : BatchUpsertBegin(s, rs, TRUE)
  \/ BatchUpsertRow(s)
  \/ BatchUpsertCommit(s)
  \/ BatchUpsertFinish(s)

UpdateFieldValueRuns(s) ==
  \/ UpdateFieldValueBegin(s)
  \/ UpdateFieldValueSelectSource(s)
  \/ UpdateFieldValueSelectTarget(s)
  \/ UpdateFieldValueDeleteSource(s)
  \/ UpdateFieldValueDeleteTarget(s)
  \/ UpdateFieldValueInsert(s)
  \/ UpdateFieldValueCommit(s)
  \/ UpdateFieldValueRollback(s)
  \/ UpdateFieldValueFinish(s)

MergeRenameStep(s) ==
  \/ \E o, n \in {"alice", "bob"} :
       CountersBelow(0) /\ UpdateFieldValueEnters(s, "username", o, n)
  \/ UpdateFieldValueRuns(s)

NextMerge ==
  \/ MergeEdgeStep("A") /\ UNCHANGED <<hist, obs>> /\ UNCHANGED lrvars
  \/ MergeBatchStep("A") /\ UNCHANGED <<hist, obs>> /\ UNCHANGED lrvars
  \/ MergeRenameStep("A") /\ UNCHANGED <<hist, obs>> /\ UNCHANGED lrvars
  \/ Return("A") /\ UNCHANGED <<hist, obs>> /\ UNCHANGED lrvars

SpecMerge == Init /\ [][NextMerge]_vars

-----------------------------------------------------------------------------
(* getRelations and getRelationsByValue over edges that share a source or a *)
(* target, and of which a value is the source of one and the target of      *)
(* another                                                                  *)

GroupEdges ==
  [st : {"username"}, sv : {"alice"}, tt : {"command"}, tv : {"ls"},
   metadata : {NoMetadata}]
    \cup [st : {"username"}, sv : {"alice"}, tt : {"command"}, tv : {"whoami"},
          metadata : {Dated}]
    \cup [st : {"username"}, sv : {"bob"}, tt : {"command"}, tv : {"ls"},
          metadata : {NoMetadata}]
    \cup [st : {"command"}, sv : {"ls"}, tt : {"username"}, tv : {"alice"},
          metadata : {NoMetadata, Dated}]

GroupEdgeStep(s) ==
  \/ \E a \in GroupEdges : UpsertRelationCall(s, a.st, a.sv, a.tt, a.tv, a.metadata)
  \/ UpsertRelationQuery(s)
  \/ UpsertRelationResume(s)

GetRelationsByValueStep(s) ==
  \/ \E a \in {<<"username", "alice">>, <<"command", "ls">>} :
       GetRelationsByValueCall(s, a[1], a[2])
  \/ GetRelationsByValueQuery(s)
  \/ GetRelationsByValueResume(s)

NextGroups ==
  \/ GroupEdgeStep("A") /\ UNCHANGED <<hist, obs>> /\ UNCHANGED lrvars
  \/ GetRelationsStep("A") /\ UNCHANGED <<hist, obs>> /\ UNCHANGED lrvars
  \/ GetRelationsByValueStep("A") /\ UNCHANGED <<hist, obs>> /\ UNCHANGED lrvars
  \/ Return("A") /\ UNCHANGED <<hist, obs>> /\ UNCHANGED lrvars

SpecGroups == Init /\ [][NextGroups]_vars

-----------------------------------------------------------------------------
(* A caller that upserts and renames next to a caller that reads *)

LsEdges ==
  [st : {"username"}, sv : {"alice", "bob"}, tt : {"command"}, tv : {"ls"},
   metadata : {NoMetadata}]

LsEdgeStep(s) ==
  \/ \E a \in LsEdges : UpsertRelationCall(s, a.st, a.sv, a.tt, a.tv, a.metadata)
  \/ UpsertRelationQuery(s)
  \/ UpsertRelationResume(s)

NextAtomic ==
  \/ LsEdgeStep("A") /\ UNCHANGED <<hist, obs>> /\ UNCHANGED lrvars
  \/ MergeRenameStep("A") /\ UNCHANGED <<hist, obs>> /\ UNCHANGED lrvars
  \/ GetRelationsByValueStep("B") /\ ObserveMidRead("B") /\ UNCHANGED hist /\ UNCHANGED lrvars
  \/ \E s \in Slots : Return(s) /\ UNCHANGED <<hist, obs>> /\ UNCHANGED lrvars

SpecAtomic == Init /\ [][NextAtomic]_vars

-----------------------------------------------------------------------------
(* updateUserCommands next to the cached reads, over edges of which a       *)
(* username is the source or the target, one call after the other           *)

FrameEdges ==
  {[st |-> "username", sv |-> "alice", tt |-> "command", tv |-> "ls", metadata |-> Dated],
   [st |-> "username", sv |-> "bob", tt |-> "command", tv |-> "ls", metadata |-> NoMetadata],
   [st |-> "username", sv |-> "bob", tt |-> "username", tv |-> "alice", metadata |-> NoMetadata]}

FrameEdgeStep(s) ==
  \/ \E a \in FrameEdges : UpsertRelationCall(s, a.st, a.sv, a.tt, a.tv, a.metadata)
  \/ UpsertRelationQuery(s)
  \/ UpsertRelationResume(s)

ReadOneStep(s) ==
  \/ \E type \in {"username", "command"} : GetRelationsCall(s, type, 1)
  \/ GetRelationsQuery(s)
  \/ GetRelationsResume(s)

NextFrame ==
  \/ FrameEdgeStep("A") /\ UNCHANGED <<hist, obs>> /\ UNCHANGED lrvars
  \/ UpdateUserCommandsStep("A") /\ UNCHANGED <<hist, obs>> /\ UNCHANGED lrvars
  \/ ReadOneStep("A") /\ UNCHANGED <<hist, obs>> /\ UNCHANGED lrvars
  \/ GetUserCommandsStep("A") /\ UNCHANGED <<hist, obs>> /\ UNCHANGED lrvars
  \/ Return("A") /\ UNCHANGED <<hist, obs>> /\ UNCHANGED lrvars

SpecFrame == Init /\ [][NextFrame]_vars

-----------------------------------------------------------------------------
(* Renames next to the cached reads, one call after the other, in less than *)
(* the TTL.                                                                  *)
(*   gone   the <<type, value>> that a completed rename has renamed away and *)
(*          that no later upsertRelation or rename has brought back          *)

StaleEdges ==
  {[st |-> "username", sv |-> "alice", tt |-> "command", tv |-> "ls",
    metadata |-> NoMetadata]}

StaleEdgeStep(s) ==
  \/ \E a \in StaleEdges : UpsertRelationCall(s, a.st, a.sv, a.tt, a.tv, a.metadata)
  \/ UpsertRelationQuery(s)
  \/ UpsertRelationResume(s)

ObserveRenames(s) ==
  LET c == call'[s] IN
  obs' =
    IF pc[s] = "idle" /\ c.op = "upsertRelation"
    THEN [obs EXCEPT !.gone = @ \ {<<c.st, c.sv>>, <<c.tt, c.tv>>}]
    ELSE IF pc[s] = "rename_committed" /\ pc'[s] = "done"
    THEN [obs EXCEPT !.gone = (@ \ {<<c.fieldType, c.newValue>>})
                                \cup {<<c.fieldType, c.oldValue>>}]
    ELSE IF pc[s] = "commands_resume" /\ c.out = "ok" /\ c.oldUsername # c.newUsername
    THEN [obs EXCEPT !.gone = (@ \ {<<"username", c.newUsername>>})
                                \cup {<<"username", c.oldUsername>>}]
    ELSE obs

NextStale ==
  \/ StaleEdgeStep("A") /\ ObserveRenames("A") /\ UNCHANGED hist /\ UNCHANGED lrvars
  \/ MergeRenameStep("A") /\ ObserveRenames("A") /\ UNCHANGED hist /\ UNCHANGED lrvars
  \/ UpdateUserCommandsStep("A") /\ ObserveRenames("A") /\ UNCHANGED hist /\ UNCHANGED lrvars
  \/ ReadOneStep("A") /\ ObserveRenames("A") /\ UNCHANGED hist /\ UNCHANGED lrvars
  \/ GetUserCommandsStep("A") /\ ObserveRenames("A") /\ UNCHANGED hist /\ UNCHANGED lrvars
  \/ Return("A") /\ UNCHANGED <<hist, obs>> /\ UNCHANGED lrvars

SpecStale == Init /\ [][NextStale]_vars

-----------------------------------------------------------------------------
(* getRelations and getRelationsByValue over edges whose sources have the   *)
(* same value and different types                                           *)

MixedEdges ==
  {[st |-> "username", sv |-> "ls", tt |-> "command", tv |-> "ls", metadata |-> NoMetadata],
   [st |-> "command", sv |-> "ls", tt |-> "username", tv |-> "alice", metadata |-> Dated]}

MixedEdgeStep(s) ==
  \/ \E a \in MixedEdges : UpsertRelationCall(s, a.st, a.sv, a.tt, a.tv, a.metadata)
  \/ UpsertRelationQuery(s)
  \/ UpsertRelationResume(s)

MixedReadStep(s) ==
  \/ \E l \in Limits : GetRelationsCall(s, "command", l)
  \/ GetRelationsQuery(s)
  \/ GetRelationsResume(s)

MixedByValueStep(s) ==
  \/ GetRelationsByValueCall(s, "command", "ls")
  \/ GetRelationsByValueQuery(s)
  \/ GetRelationsByValueResume(s)

NextMixed ==
  \/ MixedEdgeStep("A") /\ UNCHANGED <<hist, obs>> /\ UNCHANGED lrvars
  \/ MixedReadStep("A") /\ UNCHANGED <<hist, obs>> /\ UNCHANGED lrvars
  \/ MixedByValueStep("A") /\ UNCHANGED <<hist, obs>> /\ UNCHANGED lrvars
  \/ Return("A") /\ UNCHANGED <<hist, obs>> /\ UNCHANGED lrvars

SpecMixed == Init /\ [][NextMixed]_vars

-----------------------------------------------------------------------------
(* Batches next to the cached reads, one call after the other *)

CommandEdges ==
  [st : {"username"}, sv : {"alice"}, tt : {"command"}, tv : {"ls", "whoami"},
   metadata : {NoMetadata}]

CommandBatchStep(s) ==
  \/ BatchUpsertEmpty(s)
  \/ \E rs \in SeqsUpTo(CommandEdges, MaxBatch), ok \in BOOLEAN : BatchUpsertBegin(s, rs, ok)
  \/ BatchUpsertRow(s)
  \/ BatchUpsertCommit(s)
  \/ BatchUpsertRollback(s)
  \/ BatchUpsertFinish(s)

NextBatch ==
  \/ CommandBatchStep("A") /\ UNCHANGED <<hist, obs>> /\ UNCHANGED lrvars
  \/ AnyReadStep("A") /\ UNCHANGED <<hist, obs>> /\ UNCHANGED lrvars
  \/ GetUserCommandsStep("A") /\ UNCHANGED <<hist, obs>> /\ UNCHANGED lrvars
  \/ Return("A") /\ UNCHANGED <<hist, obs>> /\ UNCHANGED lrvars

SpecBatch == Init /\ [][NextBatch]_vars

-----------------------------------------------------------------------------
(* Claims *)

\* C1: from an empty store and with upserts only, a composite key upserted
\* N >= 1 times is stored exactly once with strength = connectionCount = N and
\* lastSeen = the greatest timestamp supplied for it, whatever the order of
\* the timestamps and whatever was upserted to other keys in between.
C1_UpsertCounts ==
  /\ \A r \in store : Key(r) \in DOMAIN hist
  /\ \A k \in DOMAIN hist :
        /\ \E r \in store : Key(r) = k
        /\ \A r \in store : Key(r) = k =>
              /\ r.strength = hist[k].n
              /\ r.cc = hist[k].n
              /\ r.lastSeen = hist[k].max

\* C1 witness: a key upserted at least twice whose last supplied timestamp is
\* not the greatest one, next to another key that was upserted too.
C1_Witness ==
  \E r, q \in store :
    /\ Key(r) # Key(q)
    /\ r.strength >= 2
    /\ r.metadata.timestamp # 0
    /\ r.metadata.timestamp < r.lastSeen

\* C2: a batch in which a statement failed ends with the error and with the
\* stored relations exactly as they were before the call, rows processed
\* before the failure included; nothing of a batch is stored before COMMIT.
C2_BatchAllOrNothing ==
  \A s \in Slots : call[s].op = "batchUpsertRelations" =>
    /\ pc[s] \in {"batch_rows", "batch_rollback"} => store = call[s].before
    /\ pc[s] = "done" /\ call[s].thrown =>
          /\ call[s].out = "error"
          /\ store = call[s].before
          /\ ~tx[s].open
    /\ pc[s] = "done" /\ call[s].out = "error" => call[s].thrown

\* C2 witness: a batch that failed after a row that was new to the store had
\* been upserted, while other rows were stored.
C2_Witness ==
  \E s \in Slots :
    /\ call[s].op = "batchUpsertRelations"
    /\ pc[s] = "done"
    /\ call[s].out = "error"
    /\ store # {}
    /\ \E i \in 1..Len(call[s].results) :
         \A r \in call[s].results[i] : Key(r) \notin {Key(q) : q \in store}

\* The edge of an acknowledged row, as a getRelations result shows it.
Shows(val, row) ==
  \E i \in DOMAIN val :
    /\ val[i].source = row.sv
    /\ \E j \in DOMAIN val[i].related :
         /\ val[i].related[j].target = row.tv
         /\ val[i].related[j].strength >= row.strength

\* C3: a getRelations(T, limit) call that starts after an upsertRelation
\* touching T has returned yields a result that reflects the upserted edge,
\* whatever getRelations calls were suspended at their query meanwhile.
C3_NoStaleRead ==
  \A s \in Slots :
    call[s].op = "getRelations" /\ pc[s] = "done" /\ call[s].out = "ok" =>
      \A row \in obs.floor[s] :
        (row.st = call[s].type \/ row.tt = call[s].type) => Shows(call[s].val, row)

FreshRelations(type, limit) ==
  {formatRelations(q) : q \in RelationsQuery(store, type, limit)}

\* C4 as stated: a getRelations call made less than the TTL after an earlier
\* call for the same key, with no invalidation of the type in between,
\* returns the same result without a storage query; a call made after a
\* completed upsertRelation on the type is recomputed from the store.
C4_WithinTTLOfAnyCall ==
  \A s \in Slots : call[s].op = "getRelations" =>
    /\ obs.recent[s] # NoData =>
          /\ pc[s] = "done"
          /\ ~call[s].queried
          /\ call[s].val = obs.recent[s][1].val
    /\ obs.must[s] /\ pc[s] = "done" =>
          /\ call[s].queried
          /\ call[s].out = "ok" => call[s].val \in FreshRelations(call[s].type, call[s].limit)

\* C4 amended: a getRelations call made less than the TTL after the call that
\* computed the entry of its key (the last one that went to the store), with
\* no invalidation of the type in between, returns that call's result without
\* a storage query; a call made after a completed upsertRelation on the type
\* is recomputed from the store.
C4_WithinTTLOfComputation ==
  \A s \in Slots : call[s].op = "getRelations" =>
    /\ obs.computed[s] # NoData =>
          /\ pc[s] = "done"
          /\ ~call[s].queried
          /\ call[s].val = obs.computed[s][1].val
    /\ obs.must[s] /\ pc[s] = "done" =>
          /\ call[s].queried
          /\ call[s].out = "ok" => call[s].val \in FreshRelations(call[s].type, call[s].limit)

\* C4 witness: a call served from the cache two clock steps after the call
\* that computed a non-empty result.
C4_Witness ==
  \E s \in Slots :
    /\ call[s].op = "getRelations"
    /\ pc[s] = "done"
    /\ obs.computed[s] # NoData
    /\ call[s].val # << >>
    /\ now - obs.computed[s][1].at = 2 * ClockStep

\* C9: a getUserCommands call made after upsertRelation("username", u,
\* "command", c) has returned gives a row for (u, c), also when an earlier
\* result is in the cache.
C9_UserCommandsShowUpserts ==
  \A s \in Slots :
    call[s].op = "getUserCommands" /\ pc[s] = "done" /\ call[s].out = "ok" =>
      \A row \in obs.floor[s] :
        row.st = "username" /\ row.tt = "command" =>
          \E i \in DOMAIN call[s].val :
            /\ call[s].val[i].username = row.sv
            /\ call[s].val[i].command = row.tv

NoOpRename(c) == Falsy(c.oldValue) \/ Falsy(c.newValue) \/ c.oldValue = c.newValue

\* C5: after updateFieldValue(fieldType, oldValue, newValue) has committed,
\* with both values truthy and different, no stored edge has (fieldType,
\* oldValue) as its source or as its target.
C5_OldValueGone ==
  \A s \in Slots :
    /\ call[s].op = "updateFieldValue"
    /\ pc[s] = "done"
    /\ call[s].out = "ok"
    /\ ~NoOpRename(call[s])
    => \A r \in store :
         /\ ~(r.st = call[s].fieldType /\ r.sv = call[s].oldValue)
         /\ ~(r.tt = call[s].fieldType /\ r.tv = call[s].oldValue)

\* C10: updateFieldValue with a falsy oldValue, a falsy newValue or equal
\* values returns 0 at once: no statement is sent, no transaction is opened,
\* and the stored relations and the cache are as they were.
C10_NoOpRename ==
  \A s \in Slots :
    call[s].op = "updateFieldValue"
      /\ (call[s].oldValue = "" \/ call[s].newValue = ""
            \/ call[s].oldValue = call[s].newValue)
    => /\ pc[s] = "done"
       /\ call[s].out = "ok"
       /\ call[s].val = 0
       /\ call[s].statements = 0
       /\ ~tx[s].open
       /\ store = call[s].before
       /\ cache = call[s].cacheBefore

\* C10 witness: the call with equal values, and the one with a falsy value,
\* returned while relations were stored and a result for the type was cached.
C10_Witness ==
  \E s \in Slots :
    /\ call[s].op = "updateFieldValue"
    /\ pc[s] = "done"
    /\ call[s].oldValue = "alice"
    /\ call[s].newValue \in {"alice", ""}
    /\ \E r \in store : r.sv = "alice"
    /\ RelationsKey("username", 1) \in DOMAIN cache
    /\ cache[RelationsKey("username", 1)].data # << >>


\* C6: after any sequence of upsertRelation, batchUpsertRelations,
\* updateFieldValue, updateUserCommands and deleteOldRelations, no two stored
\* relations share the key (sourceType, sourceValue, targetType, targetValue),
\* in the table and in what every open transaction sees of it.
C6_KeyUnique ==
  /\ \A r, q \in store : Key(r) = Key(q) => r = q
  /\ \A s \in Slots : \A r, q \in View(s) : Key(r) = Key(q) => r = q

\* A rename has collided with an edge that was already there (its connection
\* count ran ahead of its strength) and an updateUserCommands has been refused
\* because its target key was taken.
C6_Witness ==
  /\ \E r \in store : r.cc > r.strength
  /\ Cardinality(store) >= 2
  /\ \E s \in Slots :
       /\ pc[s] = "done"
       /\ call[s].op = "updateUserCommands"
       /\ call[s].out = "error"
       /\ UniqueViolation(store, call[s].oldUsername, call[s].newUsername)

\* C7: a deleteOldRelations(days) that succeeds has removed exactly the edges
\* whose lastSeen is strictly before (time of the statement) - days, has
\* returned their number, and leaves the cache empty, so that no key is found
\* by the next read.
C7_DeleteOld ==
  \A s \in Slots :
    (pc[s] = "done" /\ call[s].op = "deleteOldRelations" /\ call[s].out = "ok") =>
      /\ store = {r \in call[s].before :
                    ~(r.lastSeen < call[s].at - DAY_MS * call[s].days)}
      /\ call[s].val = Cardinality(call[s].before \ store)
      /\ cache = << >>
      /\ \A l \in Limits : _getCachedData(RelationsKey("username", l)) = NoData
      /\ _getCachedData(UserCommandsKey) = NoData

\* A deleteOldRelations(1) has removed an edge, has kept an edge whose lastSeen
\* is exactly the limit, and has emptied a cache that held both kinds of entry.
C7_Witness ==
  \E s \in Slots :
    /\ pc[s] = "done"
    /\ call[s].op = "deleteOldRelations"
    /\ call[s].out = "ok"
    /\ call[s].days = 1
    /\ call[s].val >= 1
    /\ \E r \in store : r.lastSeen = call[s].at - DAY_MS * call[s].days
    /\ UserCommandsKey \in call[s].cached
    /\ RelationsKey("username", 1) \in call[s].cached

\* The rows a getRelations has fetched, as a set.
Fetched(s) == {call[s].rows[i] : i \in 1..Len(call[s].rows)}

\* The edges of a formatted result: source, target, target type and lastSeen.
Edges(val) ==
  UNION {{<<val[i].source, val[i].related[j].target, val[i].related[j].type,
            val[i].related[j].lastSeen>> : j \in DOMAIN val[i].related} :
         i \in DOMAIN val}

\* A getRelations that missed the cache has returned.
Fetching(s) ==
  /\ pc[s] = "done"
  /\ call[s].op = "getRelations"
  /\ call[s].out = "ok"
  /\ call[s].queried

\* C8 as stated: among the edges returned by getRelations(type, limit), at most
\* limit have the same value on the side opposite to the matching one, and
\* they are the most recent of the edges with that value.
C8_PerOtherSideValue ==
  \A s \in Slots :
    Fetching(s) =>
      LET t == call[s].type
          M == Matching(store, t)
      IN /\ Fetched(s) \subseteq M
         /\ \A e \in M :
              LET all == {r \in M : OtherSideOf(r, t) = OtherSideOf(e, t)}
                  got == all \cap Fetched(s)
              IN /\ Cardinality(got) <= call[s].limit
                 /\ \A r \in got, q \in all \ got : r.lastSeen >= q.lastSeen

\* C8: a getRelations(type, limit) that misses the cache returns the edges it
\* fetched; among them at most limit have the same value on the matching side
\* (the source value when the source type is the type, the target value
\* otherwise); they are as many as the limit allows and none of the edges left
\* out is more recent than one fetched.
C8_PerMatchingValue ==
  \A s \in Slots :
    Fetching(s) =>
      LET t == call[s].type
          M == Matching(store, t)
          Side(r) == IF r.st = t THEN r.sv ELSE r.tv
      IN /\ Fetched(s) \subseteq M
         /\ Len(call[s].rows) = Cardinality(Fetched(s))
         /\ Edges(call[s].val) = {<<r.sv, r.tv, r.tt, r.lastSeen>> : r \in Fetched(s)}
         /\ \A e \in M :
              LET all == {r \in M : Side(r) = Side(e)}
                  got == all \cap Fetched(s)
              IN /\ Cardinality(got) <= call[s].limit
                 /\ Cardinality(got) = Min(call[s].limit, Cardinality(all))
                 /\ \A r \in got, q \in all \ got : r.lastSeen >= q.lastSeen

\* A getRelations("username", 1) has returned one edge for each of two users
\* and has left out an older edge of one of them.
C8_Witness ==
  \E s \in Slots :
    /\ Fetching(s)
    /\ call[s].type = "username"
    /\ call[s].limit = 1
    /\ Cardinality(Fetched(s)) = 2
    /\ \E r \in Fetched(s), q \in store \ Fetched(s) :
         r.sv = q.sv /\ q.lastSeen < r.lastSeen


-----------------------------------------------------------------------------
(* Claims on the LogRotationManager *)

\* What checkLogFile is to report for a file that holds data.
Needs(data) ==
  /\ data # Absent
  /\ data.kind = "list" => data.n >= maxLogsPerFile

Rotating(c) == c.op \in {"rotateLogs", "forceRotation"}

\* C11: after a rotateLogs(files) that succeeded, every input file holds an
\* empty list, and the archive of the call exists, with an identical copy in
\* the export directory, and holds for every input file that existed a copy,
\* named by the file and the date, of what the file held at the call.
C11_RotateLogs ==
  \A t \in Tasks :
    (Rotating(task[t]) /\ task[t].pc = "done" /\ task[t].out = "ok") =>
      LET c == task[t]
          name == c.val.archiveFile
      IN /\ \A f \in Range(c.logFiles) : disk.files[f] = [kind |-> "list", n |-> 0]
         /\ name \in DOMAIN disk.archives
         /\ name \in DOMAIN disk.exports
         /\ disk.exports[name] = disk.archives[name]
         /\ disk.archives[name].complete
         /\ \A f \in Range(c.logFiles) :
              c.before.files[f] # Absent =>
                /\ <<f, now \div DAY_MS>> \in DOMAIN disk.archives[name].entries
                /\ disk.archives[name].entries[<<f, now \div DAY_MS>>] = c.before.files[f]

\* A rotation of both files has succeeded on the second day; one held a list
\* at the threshold and the other bytes that are not JSON.
C11_Witness ==
  \E t \in Tasks :
    /\ Rotating(task[t])
    /\ task[t].pc = "done"
    /\ task[t].out = "ok"
    /\ now > T0 + DAY_MS
    /\ task[t].before.files[logFiles[1]] = [kind |-> "list", n |-> maxLogsPerFile]
    /\ task[t].before.files[logFiles[2]].kind = "garbage"
    /\ \A f \in Files : disk.files[f] = EmptyArray
    /\ Cardinality(DOMAIN disk.archives[task[t].archiveFileName].entries) = 2

C13_StopHalts == ~obs.lateRun

\* The endpoint types of a list of relations.
TypesOf(relations) ==
  {relations[i].st : i \in DOMAIN relations} \cup {relations[i].tt : i \in DOMAIN relations}

\* C14: batchUpsertRelations leaves the cache as it was until COMMIT has been
\* done, and when it rolls back; once committed it removes the entries whose
\* key starts with an endpoint type of the batch, and no other entry; for an
\* empty list it returns an empty list and leaves the store and the cache as
\* they were.
C14_BatchInvalidation ==
  \A s \in Slots :
    call[s].op = "batchUpsertRelations" =>
      LET c == call[s]
          kept == {k \in DOMAIN c.cacheBefore :
                     \A t \in TypesOf(c.relations) : ~StartsWith(k, Chars[t])}
      IN /\ pc[s] \in {"batch_rows", "batch_rollback"} =>
              cache = c.cacheBefore /\ store = c.before
         /\ pc[s] = "batch_committed" => cache = c.cacheBefore /\ ~tx[s].open
         /\ (pc[s] = "done" /\ c.out = "error") =>
              cache = c.cacheBefore /\ store = c.before
         /\ (pc[s] = "done" /\ c.out = "ok" /\ c.relations # << >>) =>
              cache = [k \in kept |-> c.cacheBefore[k]]
         /\ (pc[s] = "done" /\ c.relations = << >>) =>
              /\ c.out = "ok"
              /\ c.val = << >>
              /\ cache = c.cacheBefore
              /\ store = c.before

\* A batch of two relations has committed and returned while the results of
\* getRelations for both of its types and of getUserCommands were cached: the
\* first are gone, the last is still there.
C14_Witness ==
  \E s \in Slots :
    /\ call[s].op = "batchUpsertRelations"
    /\ pc[s] = "done"
    /\ call[s].out = "ok"
    /\ Len(call[s].relations) = 2
    /\ {RelationsKey("username", 1), RelationsKey("command", 1), UserCommandsKey}
         \subseteq DOMAIN call[s].cacheBefore
    /\ DOMAIN cache = {UserCommandsKey}

\* A rename commits after one of its re-inserts has met a row with its key.
MergeCommits ==
  \E s \in Slots :
    /\ call[s].op = "updateFieldValue"
    /\ pc[s] = "rename_insert"
    /\ pc'[s] = "rename_committed"
    /\ call[s].merged

\* C15 as stated: every stored relation has connectionCount equal to strength.
C15_Mirrors == \A r \in store : r.cc = r.strength

\* C15: connectionCount equal to strength on every stored relation is kept by
\* every step of upsertRelation, batchUpsertRelations and updateFieldValue
\* but the commit of a rename of which a re-insert met an existing key.
C15_MirrorsUntilMerged ==
  [][(C15_Mirrors /\ ~MergeCommits) => \A r \in store' : r.cc = r.strength]_vars

\* A rename that met no existing key has moved an edge upserted more than once,
\* whose two counters are still equal.
C15_Witness ==
  \E s \in Slots :
    /\ call[s].op = "updateFieldValue"
    /\ pc[s] = "done"
    /\ call[s].out = "ok"
    /\ call[s].val > 0
    /\ ~call[s].merged
    /\ \E r \in store :
         /\ r.sv = call[s].newValue
         /\ r.lastSeen = now
         /\ r.strength >= 2
         /\ r.cc = r.strength
         /\ r \notin call[s].before

\* The edges a rename moves, and where it moves them.
Moved(c) ==
  {r \in c.before : \/ r.st = c.fieldType /\ r.sv = c.oldValue
                    \/ r.tt = c.fieldType /\ r.tv = c.oldValue}

RenamedTo(r, c) ==
  [r EXCEPT !.sv = IF r.st = c.fieldType /\ r.sv = c.oldValue THEN c.newValue ELSE @,
            !.tv = IF r.tt = c.fieldType /\ r.tv = c.oldValue THEN c.newValue ELSE @]

Survivor(r, c) == {q \in c.before \ Moved(c) : Key(q) = Key(RenamedTo(r, c))}

\* C16: after an updateFieldValue that succeeds, an edge moved onto the key of
\* a surviving edge has left there the surviving edge with strength the larger
\* of the two strengths, connection count one more than the survivor's,
\* lastSeen the time of the rename and the metadata of the moved edge; an
\* edge moved onto a free key is there with its strength, connection count,
\* firstSeen and metadata, and lastSeen the time of the rename; the edges the
\* rename neither moves nor meets are as they were.
C16_RenameMerge ==
  \A s \in Slots :
    (/\ call[s].op = "updateFieldValue"
     /\ pc[s] = "done"
     /\ call[s].out = "ok"
     /\ ~NoOpRename(call[s])) =>
      LET c == call[s] IN
      /\ \A r \in Moved(c) :
           LET at == {x \in store : Key(x) = Key(RenamedTo(r, c))} IN
           /\ Cardinality(at) = 1
           /\ \A x \in at :
                IF Survivor(r, c) = {}
                THEN x = [RenamedTo(r, c) EXCEPT !.lastSeen = now]
                ELSE \A q \in Survivor(r, c) :
                       x = [q EXCEPT !.strength = Max(q.strength, r.strength),
                                     !.cc = q.cc + 1,
                                     !.lastSeen = now,
                                     !.metadata = r.metadata]
      /\ \A q \in c.before \ Moved(c) :
           (\A r \in Moved(c) : Key(RenamedTo(r, c)) # Key(q)) => q \in store
      /\ \A x \in store :
           \/ x \in c.before \ Moved(c)
           \/ \E r \in Moved(c) : Key(x) = Key(RenamedTo(r, c))

\* One rename has moved an edge onto a surviving edge that was weaker, had
\* other metadata, another firstSeen and an older lastSeen, and another edge
\* onto a free key.
C16_Witness ==
  \E s \in Slots :
    /\ call[s].op = "updateFieldValue"
    /\ pc[s] = "done"
    /\ call[s].out = "ok"
    /\ \E r \in Moved(call[s]) :
         /\ Survivor(r, call[s]) = {}
         /\ r.lastSeen < now
    /\ \E r \in Moved(call[s]) : \E q \in Survivor(r, call[s]) :
         /\ r.strength > q.strength + 1
         /\ r.metadata # q.metadata
         /\ r.firstSeen # q.firstSeen
         /\ q.lastSeen < now

\* The rename of s has begun and has not committed.
Renaming(s) ==
  /\ call[s].op = "updateFieldValue"
  /\ pc[s] \in {"rename_begin", "rename_select_source", "rename_select_target",
                "rename_delete_source", "rename_delete_target", "rename_insert",
                "rename_rollback"}

\* The stored relations while the rename runs and once it has failed.
RenameAllOrNothing ==
  \A s \in Slots :
    call[s].op = "updateFieldValue" =>
      LET c == call[s] IN
      /\ Renaming(s) => store = c.before
      /\ c.thrown => pc[s] \in {"rename_rollback", "done"}
      /\ (pc[s] = "done" /\ c.thrown) =>
           /\ c.out = "error"
           /\ store = c.before
           /\ tx[s] = NoTx
      /\ (pc[s] = "done" /\ c.out = "error") => c.thrown

\* What a query of getRelationsByValue reads while a rename runs.
ReadsBefore ==
  \A o \in Slots :
    (/\ pc[o] = "byvalue_query"
     /\ call'[o].queried
     /\ call'[o].out # "error") =>
      \A s \in Slots :
        Renaming(s) =>
          call'[o].rows \in
            RelationsByValueQuery(call[s].before, call[o].type, call[o].value)

\* C17: a rename of which a statement fails rolls back, fails, and leaves the
\* stored relations as they were before the call; until it commits the
\* stored relations are those before the call, and a query of
\* getRelationsByValue made meanwhile reads them.
C17_RenameAtomic == []RenameAllOrNothing /\ [][ReadsBefore]_vars

\* A rename has failed after its deletions and a re-insert; a
\* getRelationsByValue has queried the table while they were uncommitted.
C17_Witness ==
  /\ obs.midRead
  /\ \E s \in Slots :
       /\ call[s].op = "updateFieldValue"
       /\ pc[s] = "done"
       /\ call[s].thrown
       /\ call[s].statements >= 7
       /\ call[s].merged
       /\ Moved(call[s]) # {}

\* A getRelations that missed the cache, or a getRelationsByValue, has
\* returned what it made of the rows of its query.
Grouped(s) ==
  /\ pc[s] = "done"
  /\ call[s].op \in {"getRelations", "getRelationsByValue"}
  /\ call[s].out = "ok"
  /\ call[s].queried

\* Where the source value v first comes in the rows.
FirstAt(rows, v) ==
  CHOOSE k \in DOMAIN rows :
    /\ rows[k].sv = v
    /\ \A j \in DOMAIN rows : rows[j].sv = v => k <= j

\* C18: the result of getRelations and of getRelationsByValue has one group
\* for each source value of the rows read, the groups are in the order in
\* which their source values first come in the rows (which are read by
\* lastSeen descending), every row is in the related list of one group, at
\* one place, and every related list is in non-increasing lastSeen order.
C18_Groups ==
  \A s \in Slots :
    Grouped(s) =>
      LET rows == call[s].rows
          val == call[s].val
      IN /\ \A i, j \in DOMAIN rows : i < j => rows[i].lastSeen >= rows[j].lastSeen
         /\ \A i, j \in DOMAIN val : i # j => val[i].source # val[j].source
         /\ {val[i].source : i \in DOMAIN val} = {rows[k].sv : k \in DOMAIN rows}
         /\ \A i, j \in DOMAIN val :
              i < j => FirstAt(rows, val[i].source) < FirstAt(rows, val[j].source)
         /\ \A k \in DOMAIN rows :
              Cardinality({p \in {<<i, j>> : i \in DOMAIN val, j \in 1..Len(rows)} :
                             /\ p[2] \in DOMAIN val[p[1]].related
                             /\ val[p[1]].source = rows[k].sv
                             /\ val[p[1]].related[p[2]] = Related(rows[k])}) = 1
         /\ Cardinality({p \in {<<i, j>> : i \in DOMAIN val, j \in 1..Len(rows)} :
                           p[2] \in DOMAIN val[p[1]].related}) = Len(rows)
         /\ \A i \in DOMAIN val :
              \A j, k \in DOMAIN val[i].related :
                j < k => val[i].related[j].lastSeen >= val[i].related[k].lastSeen

\* getRelationsByValue has read three edges of which the first and the last
\* have the same source: two groups, the first with two related entries of
\* different lastSeen.
C18_Witness ==
  \E s \in Slots :
    /\ Grouped(s)
    /\ call[s].op = "getRelationsByValue"
    /\ Len(call[s].rows) = 3
    /\ call[s].rows[1].sv = call[s].rows[3].sv
    /\ call[s].rows[1].sv # call[s].rows[2].sv
    /\ Len(call[s].val) = 2
    /\ Len(call[s].val[1].related) = 2
    /\ call[s].val[1].related[1].lastSeen > call[s].val[1].related[2].lastSeen

\* rotateLogs has been entered, by its caller or by checkAndRotate.
InRotateLogs(c) == c.archiveFileName # << >>

\* C19: an input file of rotateLogs differs from what it held at the call
\* only once the archive of the call is complete, holds the copy of what every
\* input file held, and has an identical copy in the export directory; when
\* createArchive or copyFile has failed, every log file is as it was, the
\* export statuses are as they were, the failure event has been sent, and the
\* call ends in an error.
C19_ResetAfterArchive ==
  \A t \in Tasks :
    InRotateLogs(task[t]) =>
      LET c == task[t]
          name == c.archiveFileName
      IN /\ (\E f \in Range(c.logFiles) : disk.files[f] # c.before.files[f]) =>
              /\ name \in DOMAIN disk.archives
              /\ disk.archives[name].complete
              /\ name \in DOMAIN disk.exports
              /\ disk.exports[name] = disk.archives[name]
              /\ \A f \in Range(c.logFiles) :
                   c.before.files[f] # Absent =>
                     /\ ArchiveName(f, name[3]) \in DOMAIN disk.archives[name].entries
                     /\ disk.archives[name].entries[ArchiveName(f, name[3])]
                          = c.before.files[f]
         /\ c.thrown \in {"archive", "copy"} =>
              /\ disk.files = c.before.files
              /\ mgr.s3Uploads = c.uploads
              /\ name \notin DOMAIN disk.exports \ DOMAIN c.before.exports
              /\ Event("log_rotation_failed", name) \in events
              /\ c.pc \in {"rot_failed_event", "car_failed_event", "done"}
              /\ c.pc = "done" => c.out = "error"

\* A rotateLogs asked to mark its archive for export has failed at copyFile:
\* the archive is there, the export copy is not, and the file that was over
\* the threshold is as it was.
C19_Witness ==
  \E t \in Tasks :
    /\ Rotating(task[t])
    /\ task[t].pc = "done"
    /\ task[t].thrown = "copy"
    /\ task[t].useS3
    /\ task[t].archiveFileName \in DOMAIN disk.archives
    /\ task[t].archiveFileName \notin DOMAIN disk.exports
    /\ \E f \in Range(task[t].logFiles) :
         /\ disk.files[f] = [kind |-> "list", n |-> MaxEntries]
         /\ MaxEntries >= maxLogsPerFile

\* The archives written or rewritten since the call.
ArchivesMade(c) ==
  {n \in DOMAIN disk.archives :
     n \notin DOMAIN c.before.archives \/ disk.archives[n] # c.before.archives[n]}

\* C20: a checkAndRotate that has ended has evaluated every configured file,
\* has called rotateLogs at most once (one archive at most), and has left
\* every file it did not hand to rotateLogs as it was; the files it handed
\* over needed rotation, and are all the files that needed it when no
\* checkLogFile failed inside; when it succeeds it returns the files handed
\* over, which are the files that were reset, and when there are none no
\* archive and no export copy was made.
C20_CheckAndRotate ==
  \A t \in Tasks :
    (task[t].op = "checkAndRotate" /\ task[t].pc = "done") =>
      LET c == task[t]
          rotated == Range(c.rotations)
      IN /\ c.idx = Len(logFiles)
         /\ ArchivesMade(c) \subseteq {c.archiveFileName}
         /\ \A f \in Files \ rotated : disk.files[f] = c.before.files[f]
         /\ rotated \subseteq {f \in Files : Needs(c.before.files[f])}
         /\ c.thrown = "" => rotated = {f \in Files : Needs(c.before.files[f])}
         /\ \A i, j \in DOMAIN c.rotations : i # j => c.rotations[i] # c.rotations[j]
         /\ c.out = "ok" =>
              /\ c.val.success
              /\ c.val.rotatedFiles = c.rotations
              /\ \A f \in rotated : disk.files[f] = EmptyArray
              /\ {f \in Files : disk.files[f] # c.before.files[f]} = rotated
              /\ rotated # {} =>
                   /\ c.archiveFileName \in DOMAIN disk.archives
                   /\ disk.archives[c.archiveFileName] =
                        ArchiveOf(rotated, c.archiveFileName, c.before.files)
              /\ rotated = {} =>
                   /\ c.val.rotatedFiles = << >>
                   /\ disk.archives = c.before.archives
                   /\ disk.exports = c.before.exports

\* A pass has rotated the one file that was at the threshold and has left the
\* other, a shorter list that is not empty, as it was.
C20_Witness ==
  \E t \in Tasks :
    /\ task[t].op = "checkAndRotate"
    /\ task[t].pc = "done"
    /\ task[t].out = "ok"
    /\ task[t].val.rotatedFiles = <<logFiles[2]>>
    /\ task[t].before.files[logFiles[2]] = [kind |-> "list", n |-> maxLogsPerFile]
    /\ disk.files[logFiles[2]] = EmptyArray
    /\ disk.files[logFiles[1]] = [kind |-> "list", n |-> maxLogsPerFile - 1]
    /\ Cardinality(DOMAIN disk.archives) = 1

\* C21: getS3UploadStatus(name) returns null for a name that no call was given
\* or made, and for a name given to updateS3UploadStatus, or made by a
\* rotateLogs with useS3 that succeeded, a record whose status is the status
\* argument of the last update, or pending.
C21_StatusReadBack ==
  \A t \in Tasks :
    (task[t].op = "getS3UploadStatus" /\ task[t].pc = "done") =>
      LET c == task[t] IN
      /\ c.name \notin obs.touched => c.val = << >>
      /\ c.name \in DOMAIN obs.lastStatus =>
           /\ c.val # << >>
           /\ c.val[1].status = obs.lastStatus[c.name]

\* C22: a rotateLogs whose createArchive, copyFile and resets have all
\* succeeded returns success, whatever becomes of the completion event.
C22_LoggerBestEffort ==
  \A t \in Tasks :
    (/\ Rotating(task[t])
     /\ task[t].pc = "done"
     /\ task[t].thrown \notin {"archive", "copy", "reset"}) =>
      /\ task[t].out = "ok"
      /\ task[t].thrown = ""

\* C23: after an updateUserCommands(oldUsername, newUsername) that succeeds,
\* the edges whose source was ("username", oldUsername) are there with the
\* source value newUsername and nothing else changed, every other edge is as
\* it was, there are as many edges as before, the count returned is the number
\* of edges whose source was ("username", oldUsername), and the cache is what
\* it was without the keys that start with "username" and without
\* "user_commands".
C23_UpdateUserCommands ==
  \A s \in Slots :
    (call[s].op = "updateUserCommands" /\ pc[s] = "done" /\ call[s].out = "ok") =>
      LET c == call[s]
          mine == {r \in c.before : r.st = "username" /\ r.sv = c.oldUsername}
          left == {k \in DOMAIN c.cacheBefore :
                     ~StartsWith(k, Chars["username"]) /\ k # UserCommandsKey}
      IN /\ \A r \in mine : [r EXCEPT !.sv = c.newUsername] \in store
         /\ \A r \in c.before \ mine : r \in store
         /\ Cardinality(store) = Cardinality(c.before)
         /\ c.val = Cardinality(mine)
         /\ cache = [k \in left |-> c.cacheBefore[k]]

\* An updateUserCommands("alice", "bob") has moved one edge, upserted twice
\* and dated, and has left the edge of which alice is the target; of the three
\* cached results the one for "command" is still there.
C23_Witness ==
  \E s \in Slots :
    /\ call[s].op = "updateUserCommands"
    /\ pc[s] = "done"
    /\ call[s].out = "ok"
    /\ call[s].oldUsername = "alice"
    /\ call[s].newUsername = "bob"
    /\ call[s].val = 1
    /\ \E r \in store : r.sv = "bob" /\ r.tv = "ls" /\ r.strength = 2 /\ r.lastSeen < now
    /\ \E r \in store : r.tt = "username" /\ r.tv = "alice"
    /\ {RelationsKey("username", 1), RelationsKey("command", 1), UserCommandsKey}
         \subseteq DOMAIN call[s].cacheBefore
    /\ DOMAIN cache = {RelationsKey("command", 1)}

\* C24: in a history of calls made one after the other, a getRelations or a
\* getUserCommands that succeeds returns no edge of which an endpoint carries
\* a value that a completed rename has renamed away and that nothing has
\* brought back since.
C24_NoStaleRename ==
  \A s \in Slots :
    (pc[s] = "done" /\ call[s].out = "ok") =>
      /\ call[s].op = "getRelations" =>
           \A i \in DOMAIN call[s].val :
             LET g == call[s].val[i] IN
             /\ <<g.type, g.source>> \notin obs.gone
             /\ \A j \in DOMAIN g.related :
                  <<g.related[j].type, g.related[j].target>> \notin obs.gone
      /\ call[s].op = "getUserCommands" =>
           \A i \in DOMAIN call[s].val :
             /\ <<"username", call[s].val[i].username>> \notin obs.gone
             /\ <<"command", call[s].val[i].command>> \notin obs.gone

\* C25: in a result that getRelations or getRelationsByValue has made of the
\* rows it has read, every entry of the related list of a group is made of a
\* row whose source value is the source of the group and whose source type is
\* the type of the group.
C25_Homogeneous ==
  \A s \in Slots :
    (/\ call[s].op \in {"getRelations", "getRelationsByValue"}
     /\ pc[s] = "done"
     /\ call[s].out = "ok"
     /\ call[s].queried) =>
      \A i \in DOMAIN call[s].val :
        LET g == call[s].val[i] IN
        \A j \in DOMAIN g.related :
          \E k \in DOMAIN call[s].rows :
            /\ call[s].rows[k].sv = g.source
            /\ call[s].rows[k].st = g.type
            /\ Related(call[s].rows[k]) = g.related[j]

\* C26: at most one interval is live, a live interval is the one the manager
\* refers to, and isInitialized is true exactly when the manager refers to an
\* interval.
C26_OneTimer ==
  /\ Cardinality(timers.live) <= 1
  /\ timers.live \subseteq {mgr.timer}
  /\ mgr.isInitialized <=> mgr.timer # 0

=============================================================================
